---- MODULE Spec2Model ----
(***************************************************************************)
(* Verification model of the Lich5 documentation generator                 *)
(* (generate_docs.py): anchor matching, insertion-point resolution,        *)
(* comment splicing and the manifest-driven directory run.                 *)
(*                                                                         *)
(* Texts are TLA+ strings; a character is a string of length one.  Line    *)
(* indices are 0-based as in the Python code, line numbers are 1-based.    *)
(***************************************************************************)
EXTENDS Integers, Sequences, FiniteSets, TLC

VARIABLES
    \* insert_comments: its two arguments, its return value, its log
    src_content, batch, out_code, out_log, pc,
    \* find_insertion_line: its four arguments and its return value
    r_lines, r_line_number, r_anchor, r_claimed, r_result, rpc,
    \* the directory run: the files on disk ...
    source, edits, documented, manifest_file,
    \* ... the generator object ...
    manifest, manifest_lock, failed_files, incremental, parallel_workers,
    \* ... and process_directory with its threads
    run, phase, queue, processed, worker, results, exit_code,
    \* history: the outcomes of the files of the previous run
    last_run,
    \* AnthropicProvider.generate and the process_file that calls it
    g_pc, g_attempt, g_requests, g_sleeps, g_error, g_file, g_failed, g_marked,
    \* sanitize_json_escapes and extract_comments_json, applied to one response
    j_text, j_shape, j_response, j_sanitized, j_result, j_pc,
    \* compute_code_hash, applied to a file before and after an edit
    h_content, h_edited, h_hashes, h_pc,
    \* soft_match_anchor and find_insertion_line, applied to one anchor and line
    m_anchor, m_line, m_result, m_index, m_pc,
    \* process_file and its caller on one file after the other
    f_pc, f_mode, f_strict_mode, f_file, f_requests, f_response, f_verdicts,
    f_written, f_marked,
    \* ConfigManager: its class attributes, the files on disk, the last call
    c_instance, c_config_path, c_exists, c_calls, c_last,
    \* the output directory of a source tree: sources, outputs, manifest
    \* entries, the files still to handle, the file in hand, the run
    o_source, o_documented, o_processed_files, o_queue, o_file, o_result,
    o_pc, o_run

spliceVars == <<src_content, batch, out_code, out_log, pc>>

resolveVars == <<r_lines, r_line_number, r_anchor, r_claimed, r_result, rpc>>

diskVars == <<source, edits, documented, manifest_file>>

generatorVars == <<manifest, manifest_lock, failed_files, incremental, parallel_workers>>

directoryVars == <<run, phase, queue, processed, worker, results, exit_code>>

historyVars == <<last_run>>

runVars == <<diskVars, generatorVars, directoryVars, historyVars>>

providerVars == <<g_pc, g_attempt, g_requests, g_sleeps, g_error, g_file,
                  g_failed, g_marked>>

\* the variables of the specifications of single functions below
jsonVars == <<j_text, j_shape, j_response, j_sanitized, j_result, j_pc>>

hashVars == <<h_content, h_edited, h_hashes, h_pc>>

\* the variables that generate leaves alone, and those the JSON functions
\* and the fingerprint leave alone
matchVars == <<m_anchor, m_line, m_result, m_index, m_pc>>

fileVars == <<f_pc, f_mode, f_strict_mode, f_file, f_requests, f_response,
              f_verdicts, f_written, f_marked>>

configVars == <<c_instance, c_config_path, c_exists, c_calls, c_last>>

outputVars == <<o_source, o_documented, o_processed_files, o_queue, o_file,
                o_result, o_pc, o_run>>

notProviderVars == <<jsonVars, hashVars, matchVars, fileVars, configVars, outputVars>>

notJsonVars == <<providerVars, hashVars, matchVars, fileVars, configVars, outputVars>>

notHashVars == <<providerVars, jsonVars, matchVars, fileVars, configVars, outputVars>>

notMatchVars == <<providerVars, jsonVars, hashVars, fileVars, configVars, outputVars>>

notFileVars == <<providerVars, jsonVars, hashVars, matchVars, configVars, outputVars>>

notConfigVars == <<providerVars, jsonVars, hashVars, matchVars, fileVars, outputVars>>

notOutputVars == <<providerVars, jsonVars, hashVars, matchVars, fileVars, configVars>>

toolVars == <<providerVars, jsonVars, hashVars, matchVars, fileVars, configVars,
              outputVars>>

vars == <<spliceVars, resolveVars, runVars, toolVars>>

(***************************************************************************)
(* Python string primitives used by the generator                          *)
(***************************************************************************)

\* str[i] (1-based here)
CharAt(s, i) == SubSeq(s, i, i)

\* characters str.strip()/str.split() and the regex class \s treat as blank
Whitespace == {" ", "\t", "\n", "\r"}

LowerChars == {"a", "b", "c", "d", "e", "f", "g", "h", "i", "j", "k", "l", "m",
               "n", "o", "p", "q", "r", "s", "t", "u", "v", "w", "x", "y", "z"}

UpperChars == {"A", "B", "C", "D", "E", "F", "G", "H", "I", "J", "K", "L", "M",
               "N", "O", "P", "Q", "R", "S", "T", "U", "V", "W", "X", "Y", "Z"}

DigitChars == {"0", "1", "2", "3", "4", "5", "6", "7", "8", "9"}

\* the regex class \w
WordChars == LowerChars \cup UpperChars \cup DigitChars \cup {"_"}

SetMin(S) == CHOOSE m \in S : \A k \in S : m <= k

SetMax(S) == CHOOSE m \in S : \A k \in S : m >= k

\* str.strip()
Strip(s) ==
    LET ns == {i \in 1..Len(s) : CharAt(s, i) \notin Whitespace}
    IN  IF ns = {} THEN "" ELSE SubSeq(s, SetMin(ns), SetMax(ns))

\* str.lstrip(chars)
LStripChars(s, chars) ==
    LET ns == {i \in 1..Len(s) : CharAt(s, i) \notin chars}
    IN  IF ns = {} THEN "" ELSE SubSeq(s, SetMin(ns), Len(s))

\* the literal p occurs in s at position i (1-based)
IsAt(p, s, i) ==
    /\ i >= 1
    /\ i + Len(p) - 1 <= Len(s)
    /\ SubSeq(s, i, i + Len(p) - 1) = p

\* p in s
Contains(p, s) == \E i \in 1..(Len(s) - Len(p) + 1) : IsAt(p, s, i)

\* s.startswith(p)
StartsWith(s, p) == IsAt(p, s, 1)

\* s.split(sep) for a one-character separator: the pieces, in order
SplitOn(s, sep) ==
    LET cuts == {i \in 1..Len(s) : CharAt(s, i) = sep}
        F[i \in 0..Len(s)] ==
            \* pieces of the first i characters; the last piece is still open
            IF i = 0 THEN <<"">>
            ELSE LET prev == F[i - 1]
                 IN  IF i \in cuts
                     THEN Append(prev, "")
                     ELSE [prev EXCEPT ![Len(prev)] = prev[Len(prev)] \o CharAt(s, i)]
    IN  F[Len(s)]

\* sep.join(pieces)
JoinWith(pieces, sep) ==
    LET F[i \in 0..Len(pieces)] ==
            IF i = 0 THEN ""
            ELSE IF i = 1 THEN pieces[1]
            ELSE F[i - 1] \o sep \o pieces[i]
    IN  F[Len(pieces)]

\* s.split(): the maximal runs of non-blank characters, in order
SplitWs(s) ==
    LET F[i \in 0..Len(s)] ==
            \* <<finished tokens, open token>> after the first i characters
            IF i = 0 THEN <<<<>>, "">>
            ELSE LET prev == F[i - 1]
                 IN  IF CharAt(s, i) \in Whitespace
                     THEN IF prev[2] = "" THEN prev
                          ELSE <<Append(prev[1], prev[2]), "">>
                     ELSE <<prev[1], prev[2] \o CharAt(s, i)>>
        last == F[Len(s)]
    IN  IF last[2] = "" THEN last[1] ELSE Append(last[1], last[2])

\* s.split(None, 1)[1] of a stripped text holding at least two tokens:
\* what follows the first token and the blanks after it
RestAfterFirstToken(s) ==
    LET ws   == {i \in 1..Len(s) : CharAt(s, i) \in Whitespace}
        w    == SetMin(ws)
        rest == {i \in (w + 1)..Len(s) : CharAt(s, i) \notin Whitespace}
    IN  IF rest = {} THEN "" ELSE SubSeq(s, SetMin(rest), Len(s))

\* s.replace(c, '') for a one-character c
RemoveChar(s, c) == JoinWith(SplitOn(s, c), "")

\* str.isupper(): some cased character, and no lower-case one
IsUpper(s) ==
    /\ \E i \in 1..Len(s) : CharAt(s, i) \in UpperChars
    /\ \A i \in 1..Len(s) : CharAt(s, i) \notin LowerChars

(***************************************************************************)
(* Regular-expression primitives (re.search)                               *)
(***************************************************************************)

\* every character of s[i..j] is matched by \s
AllWs(s, i, j) == \A k \in i..j : CharAt(s, k) \in Whitespace

\* every character of s[i..j] is matched by \w
AllWord(s, i, j) == \A k \in i..j : CharAt(s, k) \in WordChars

IsWordAt(s, i) == i >= 1 /\ i <= Len(s) /\ CharAt(s, i) \in WordChars

\* \b between the p-th and the (p+1)-th character of s
Boundary(s, p) == IsWordAt(s, p) # IsWordAt(s, p + 1)

\* re.search(r'\bdef\s+', line) ends right before position q
DefPrefixEndsBefore(line, q) ==
    \E st \in 0..Len(line) :
        /\ Boundary(line, st)
        /\ IsAt("def", line, st + 1)
        /\ q >= st + 5
        /\ AllWs(line, st + 4, q - 1)

(***************************************************************************)
(* Anchor matcher: soft_match_anchor                                       *)
(***************************************************************************)

\* re.search(rf'^\s*{keyword}\s+{re.escape(name)}\b', line)
ClassRegex(keyword, name, line) ==
    \E a \in 0..Len(line) :
        /\ AllWs(line, 1, a)
        /\ IsAt(keyword, line, a + 1)
        /\ \E q \in (a + Len(keyword) + 2)..(Len(line) + 1) :
              /\ AllWs(line, a + Len(keyword) + 1, q - 1)
              /\ IsAt(name, line, q)
              /\ Boundary(line, q + Len(name) - 1)

\* re.search(rf'\bdef\s+(self\.)?{re.escape(method_name)}\b', line)
DefSelfRegex(method_name, line) ==
    \E q \in 1..(Len(line) + 1) :
        /\ DefPrefixEndsBefore(line, q)
        /\ \/ /\ IsAt(method_name, line, q)
              /\ Boundary(line, q + Len(method_name) - 1)
           \/ /\ IsAt("self.", line, q)
              /\ IsAt(method_name, line, q + 5)
              /\ Boundary(line, q + 4 + Len(method_name))

\* re.search(rf'\bdef\s+\w+\.{re.escape(method_name)}\b', line)
DefQualifiedRegex(method_name, line) ==
    \E q \in 1..(Len(line) + 1) :
        /\ DefPrefixEndsBefore(line, q)
        /\ \E r \in (q + 1)..(Len(line) + 1) :
              /\ AllWord(line, q, r - 1)
              /\ IsAt(".", line, r)
              /\ IsAt(method_name, line, r + 1)
              /\ Boundary(line, r + Len(method_name))

\* re.search(rf'\bdef\s+{re.escape(method_sig)}\b', line)
DefSimpleRegex(method_sig, line) ==
    \E q \in 1..(Len(line) + 1) :
        /\ DefPrefixEndsBefore(line, q)
        /\ IsAt(method_sig, line, q)
        /\ Boundary(line, q + Len(method_sig) - 1)

\* re.search(rf'{attr_type}\s+:{re.escape(symbol)}\b', line)
AttrRegex(attr_type, symbol, line) ==
    \E st \in 1..(Len(line) + 1) :
        /\ IsAt(attr_type, line, st)
        /\ \E q \in (st + Len(attr_type) + 1)..(Len(line) + 1) :
              /\ AllWs(line, st + Len(attr_type), q - 1)
              /\ IsAt(":", line, q)
              /\ IsAt(symbol, line, q + 1)
              /\ Boundary(line, q + Len(symbol))

\* re.search(rf'\b{re.escape(const_name)}\s*=', line)
ConstRegex(const_name, line) ==
    \E st \in 0..Len(line) :
        /\ Boundary(line, st)
        /\ IsAt(const_name, line, st + 1)
        /\ \E q \in (st + Len(const_name) + 1)..(Len(line) + 1) :
              /\ AllWs(line, st + Len(const_name) + 1, q - 1)
              /\ IsAt("=", line, q)

\* re.search(rf'{re.escape(var_name)}\s*(=|\|\|=)', line)
VarRegex(var_name, line) ==
    \E st \in 1..(Len(line) + 1) :
        /\ IsAt(var_name, line, st)
        /\ \E q \in (st + Len(var_name))..(Len(line) + 1) :
              /\ AllWs(line, st + Len(var_name), q - 1)
              /\ (IsAt("=", line, q) \/ IsAt("||=", line, q))

\* the 'def ...' branch of soft_match_anchor
DefAnchorMatch(anchor_stripped, line) ==
    LET method_sig  == Strip(SplitOn(SubSeq(anchor_stripped, 5, Len(anchor_stripped)), "(")[1])
        parts       == SplitOn(method_sig, ".")
        method_name == parts[Len(parts)]
    IN  IF Contains("def " \o method_sig, line) THEN TRUE
        ELSE IF Contains("self.", method_sig) THEN DefSelfRegex(method_name, line)
        ELSE IF Contains(".", method_sig) THEN DefQualifiedRegex(method_name, line)
        ELSE DefSimpleRegex(method_sig, line)

\* the class/module branch of soft_match_anchor
ClassAnchorMatch(anchor_stripped, line) ==
    LET keyword == SplitWs(anchor_stripped)[1]
        name    == Strip(SplitOn(RestAfterFirstToken(anchor_stripped), "(")[1])
    IN  ClassRegex(keyword, name, line)

\* the attr_ branch of soft_match_anchor
AttrAnchorMatch(anchor_stripped, line) ==
    LET parts == SplitWs(anchor_stripped)
    IN  IF Len(parts) > 1
        THEN AttrRegex(parts[1], LStripChars(parts[2], {":"}), line)
        ELSE Contains(parts[1], line)

\* the token fallback of soft_match_anchor
TokenMatch(anchor_stripped, line) ==
    LET tokens == SplitWs(Strip(SplitOn(anchor_stripped, "(")[1]))
    IN  /\ tokens # <<>>
        /\ \A k \in 1..Len(tokens) : Contains(tokens[k], line)

soft_match_anchor(anchor, line) ==
    LET anchor_stripped == Strip(anchor)
    IN  IF StartsWith(anchor_stripped, "class ") \/ StartsWith(anchor_stripped, "module ")
        THEN ClassAnchorMatch(anchor_stripped, line)
        ELSE IF StartsWith(anchor_stripped, "def ")
        THEN DefAnchorMatch(anchor_stripped, line)
        ELSE IF StartsWith(anchor_stripped, "attr_")
        THEN AttrAnchorMatch(anchor_stripped, line)
        ELSE IF IsUpper(Strip(RemoveChar(RemoveChar(anchor_stripped, "_"), "=")))
        THEN ConstRegex(Strip(SplitOn(anchor_stripped, "=")[1]), line)
        ELSE IF StartsWith(anchor_stripped, "@")
        THEN VarRegex(Strip(SplitOn(SplitWs(anchor_stripped)[1], "=")[1]), line)
        ELSE TokenMatch(anchor_stripped, line)

(***************************************************************************)
(* Insertion-point resolver: find_insertion_line                           *)
(***************************************************************************)

\* the value returned for "not found"
None == -1

\* half-width of the neighbourhood searched first: range(-5, 6)
Window == 5

\* SearchOrder without the pass over the rest of the file
SearchOrder_WindowOnly(n, expected_idx) ==
    SelectSeq([k \in 1..(2 * Window + 1) |-> expected_idx - Window + k - 1],
              LAMBDA idx : idx # expected_idx /\ 0 <= idx /\ idx < n)

\* the list search_order built by find_insertion_line (0-based indices)
SearchOrder(n, expected_idx) ==
    LET offsets == [k \in 1..(2 * Window + 1) |-> expected_idx - Window + k - 1]
        nearby  == SelectSeq(offsets,
                       LAMBDA idx : idx # expected_idx /\ 0 <= idx /\ idx < n)
        inNear  == {nearby[k] : k \in 1..Len(nearby)}
        rest    == SelectSeq([k \in 1..n |-> k - 1],
                       LAMBDA idx : idx # expected_idx /\ idx \notin inNear)
    IN  nearby \o rest

\* the search of find_insertion_line: strategies 1 to 3
SearchFrom(lines, expected_idx, anchor, inserted_at_lines) ==
    IF Contains(anchor, lines[expected_idx + 1]) THEN expected_idx
    ELSE IF soft_match_anchor(anchor, lines[expected_idx + 1]) THEN expected_idx
    ELSE LET search_order == SearchOrder(Len(lines), expected_idx)
             hits == {k \in 1..Len(search_order) :
                         /\ search_order[k] \notin inserted_at_lines
                         /\ soft_match_anchor(anchor, lines[search_order[k] + 1])}
         IN  IF hits = {} THEN None ELSE search_order[SetMin(hits)]

\* find_insertion_line without the check of the claimed set at the
\* expected index
find_insertion_line_NoClaimCheck(lines, line_number, anchor, inserted_at_lines) ==
    LET expected_idx == line_number - 1
    IN  IF expected_idx < 0 \/ expected_idx >= Len(lines) THEN None
        ELSE SearchFrom(lines, expected_idx, anchor, inserted_at_lines)

find_insertion_line(lines, line_number, anchor, inserted_at_lines) ==
    LET expected_idx == line_number - 1
    IN  IF expected_idx < 0 \/ expected_idx >= Len(lines) THEN None
        ELSE IF expected_idx \in inserted_at_lines THEN None
        ELSE SearchFrom(lines, expected_idx, anchor, inserted_at_lines)

(***************************************************************************)
(* Splicer: insert_comments                                                *)
(***************************************************************************)

\* sorted(comments, key=line_number, reverse=True): stable, descending
SortedComments(comments) ==
    LET F[i \in 0..Len(comments)] ==
            IF i = 0 THEN <<>>
            ELSE LET prev == F[i - 1]
                     e    == comments[i]
                     \* e goes after every entry whose key is >= its own
                     keep == {k \in 1..Len(prev) : prev[k].line_number >= e.line_number}
                     pos  == IF keep = {} THEN 0 ELSE SetMax(keep)
                 IN  SubSeq(prev, 1, pos) \o <<e>> \o SubSeq(prev, pos + 1, Len(prev))
    IN  F[Len(comments)]

\* ' ' * indent
Spaces(indent) ==
    LET F[i \in 0..indent] == IF i = 0 THEN "" ELSE F[i - 1] \o " "
    IN  F[indent]

\* the list comment_lines built for one entry
CommentLines(indent, comment_text) ==
    LET raw == SplitOn(comment_text, "\n")
    IN  [k \in 1..Len(raw) |->
            IF Strip(raw[k]) # "" THEN Spaces(indent) \o raw[k] ELSE ""]

\* InsertEntry with the block written over the anchor line instead of
\* being inserted before it
InsertEntry_Overwrite(st, entry) ==
    LET anchor       == Strip(entry.anchor)
        comment_text == Strip(entry.comment)
    IN  IF entry.line_number = 0 \/ anchor = "" \/ comment_text = "" THEN st
        ELSE LET insert_idx == find_insertion_line(st.lines, entry.line_number,
                                                   anchor, st.inserted_at_lines)
             IN  IF insert_idx = None THEN st
                 ELSE [lines |-> SubSeq(st.lines, 1, insert_idx)
                                  \o CommentLines(entry.indent, comment_text)
                                  \o SubSeq(st.lines, insert_idx + 2, Len(st.lines)),
                       inserted_at_lines |-> st.inserted_at_lines \cup {insert_idx},
                       applied |-> Append(st.applied, <<entry, insert_idx>>)]

\* one iteration of the loop over sorted_comments; st holds the loop's
\* variables lines and inserted_at_lines, and applied records the
\* "Inserted comment at line ..." log: <<entry, insert_idx>> per insertion
InsertEntry(st, entry) ==
    LET anchor       == Strip(entry.anchor)
        comment_text == Strip(entry.comment)
    IN  IF entry.line_number = 0 \/ anchor = "" \/ comment_text = "" THEN st
        ELSE LET insert_idx == find_insertion_line(st.lines, entry.line_number,
                                                   anchor, st.inserted_at_lines)
             IN  IF insert_idx = None THEN st
                 ELSE [lines |-> SubSeq(st.lines, 1, insert_idx)
                                  \o CommentLines(entry.indent, comment_text)
                                  \o SubSeq(st.lines, insert_idx + 1, Len(st.lines)),
                       inserted_at_lines |-> st.inserted_at_lines \cup {insert_idx},
                       applied |-> Append(st.applied, <<entry, insert_idx>>)]

\* the whole loop of insert_comments over the sorted entries
InsertLoop(lines, sorted_comments) ==
    LET F[i \in 0..Len(sorted_comments)] ==
            IF i = 0
            THEN [lines |-> lines, inserted_at_lines |-> {}, applied |-> <<>>]
            ELSE InsertEntry(F[i - 1], sorted_comments[i])
    IN  F[Len(sorted_comments)]

\* the final state of insert_comments' loop (lines, claimed set, log)
InsertState(original_content, comments) ==
    InsertLoop(SplitOn(original_content, "\n"), SortedComments(comments))

insert_comments(original_content, comments) ==
    IF comments = <<>> THEN original_content
    ELSE JoinWith(InsertState(original_content, comments).lines, "\n")

(***************************************************************************)
(* Inputs of the splicer                                                   *)
(***************************************************************************)

\* longest source file given to insert_comments, in lines
MaxLines == 2

\* largest batch of entries given to insert_comments
MaxBatch == 2

\* the lines a source file is made of
SourceLines == {"def a", "def b", ""}

\* the source files: every text of 1..MaxLines lines
Contents ==
    {JoinWith(ls, "\n") : ls \in UNION {[1..n -> SourceLines] : n \in 1..MaxLines}}

\* the anchors the provider reports
Anchors == {"def a", "def b"}

\* <<indent, comment>> of the documentation blocks the provider reports
DocBlocks == {<<0, "# A">>, <<2, "# B\n\n# def b">>}

\* the entries of a provider response; line_number 0 stands for an entry
\* whose line_number is missing (entry.get('line_number') is falsy)
Entries ==
    {[line_number |-> n, anchor |-> a, indent |-> d[1], comment |-> d[2]] :
        n \in 0..(MaxLines + 1), a \in Anchors, d \in DocBlocks}

SpliceIdle ==
    /\ src_content = ""
    /\ batch = <<>>
    /\ out_code = ""
    /\ out_log = <<>>
    /\ pc = "idle"

ResolveIdle ==
    /\ r_lines = <<>>
    /\ r_line_number = 0
    /\ r_anchor = ""
    /\ r_claimed = {}
    /\ r_result = None
    /\ rpc = "idle"

\* the manifest load_manifest returns when there is no manifest file
EmptyManifest == [processed_files |-> <<>>, failed_files |-> <<>>]

\* the manifest lock held by nobody
NoOwner == 0

ProviderIdle ==
    /\ g_pc = "idle"
    /\ g_attempt = 0
    /\ g_requests = 0
    /\ g_sleeps = <<>>
    /\ g_error = ""
    /\ g_file = 0
    /\ g_failed = <<>>
    /\ g_marked = {}

\* no response is being parsed
JsonIdle ==
    /\ j_text = ""
    /\ j_shape = "none"
    /\ j_response = ""
    /\ j_sanitized = ""
    /\ j_result = [kind |-> "none", value |-> <<>>, error |-> ""]
    /\ j_pc = "idle"

\* no file is being fingerprinted
HashIdle ==
    /\ h_content = ""
    /\ h_edited = ""
    /\ h_hashes = <<>>
    /\ h_pc = "idle"

\* no anchor is being matched
MatchIdle ==
    /\ m_anchor = ""
    /\ m_line = ""
    /\ m_result = FALSE
    /\ m_index = None
    /\ m_pc = "idle"

\* no file is in process_file
FileIdle ==
    /\ f_pc = "idle"
    /\ f_mode = "none"
    /\ f_strict_mode = FALSE
    /\ f_file = 0
    /\ f_requests = 0
    /\ f_response = "none"
    /\ f_verdicts = <<>>
    /\ f_written = {}
    /\ f_marked = <<>>

\* ConfigManager has not been used and no config file is looked at
ConfigIdle ==
    /\ c_instance = "None"
    /\ c_config_path = "None"
    /\ c_exists = {}
    /\ c_calls = 0
    /\ c_last = <<>>

\* no source tree is being documented
OutputIdle ==
    /\ o_source = <<>>
    /\ o_documented = <<>>
    /\ o_processed_files = <<>>
    /\ o_queue = <<>>
    /\ o_file = ""
    /\ o_result = ""
    /\ o_pc = "stopped"
    /\ o_run = 0

ToolsIdle ==
    /\ ProviderIdle /\ JsonIdle /\ HashIdle /\ MatchIdle /\ FileIdle
    /\ ConfigIdle /\ OutputIdle

RunIdle ==
    /\ source = <<>>
    /\ edits = 0
    /\ documented = <<>>
    /\ manifest_file = [exists |-> FALSE, data |-> EmptyManifest]
    /\ manifest = EmptyManifest
    /\ manifest_lock = [owner |-> NoOwner, count |-> 0]
    /\ failed_files = <<>>
    /\ incremental = FALSE
    /\ parallel_workers = 1
    /\ run = 0
    /\ phase = "idle"
    /\ queue = <<>>
    /\ processed = 0
    /\ worker = <<>>
    /\ results = <<>>
    /\ exit_code = 0
    /\ last_run = <<>>

(***************************************************************************)
(* Specification of the splicer: a batch is collected, then spliced        *)
(***************************************************************************)

Init ==
    /\ src_content \in Contents
    /\ batch = <<>>
    /\ out_code = ""
    /\ out_log = <<>>
    /\ pc = "collect"
    /\ ResolveIdle
    /\ RunIdle
    /\ ToolsIdle

\* the provider response holds one more entry
AddEntry ==
    /\ pc = "collect"
    /\ Len(batch) < MaxBatch
    /\ \E e \in Entries : batch' = Append(batch, e)
    /\ UNCHANGED <<src_content, out_code, out_log, pc, resolveVars, runVars, toolVars>>

\* documented_code = self.insert_comments(original_content, comments)
Splice ==
    /\ pc = "collect"
    /\ out_code' = insert_comments(src_content, batch)
    /\ out_log' = IF batch = <<>> THEN <<>>
                      ELSE InsertState(src_content, batch).applied
    /\ pc' = "spliced"
    /\ UNCHANGED <<src_content, batch, resolveVars, runVars, toolVars>>

Next == AddEntry \/ Splice

Spec == Init /\ [][Next]_vars

(***************************************************************************)
(* Properties of the splicer                                               *)
(***************************************************************************)

\* the lines of the source file given to insert_comments
OriginalLines == SplitOn(src_content, "\n")

\* the lines of the text insert_comments returned
OutputLines == SplitOn(out_code, "\n")

\* the entry has every required field
HasFields(e) == e.line_number # 0 /\ Strip(e.anchor) # "" /\ Strip(e.comment) # ""

\* the 0-based original line the entry resolves to when it is the only
\* entry of the batch (None when it does not resolve)
TargetAlone(e) ==
    IF HasFields(e)
    THEN find_insertion_line(OriginalLines, e.line_number, Strip(e.anchor), {})
    ELSE None

\* every entry resolves, and to pairwise distinct original lines
DistinctTargets(es) ==
    /\ \A i \in 1..Len(es) : TargetAlone(es[i]) # None
    /\ \A i, j \in 1..Len(es) : i # j => TargetAlone(es[i]) # TargetAlone(es[j])

\* the batch es taken in the order p
Reordered(es, p) == [i \in 1..Len(es) |-> es[p[i]]]

\* C1: for a batch whose entries resolve to pairwise distinct original
\* lines, every permutation of the input order gives the same output text.
C1_OrderIndependent ==
    (pc = "spliced" /\ DistinctTargets(batch)) =>
        \A p \in Permutations(1..Len(batch)) :
            insert_comments(src_content, Reordered(batch, p)) = out_code

\* the original line each logged insertion was placed above, in the order
\* of the log: the number of original lines that precede the insertion point
BlockTargets(log) ==
    LET F[i \in 0..Len(log)] ==
            \* cpos: the positions (0-based) holding inserted comment lines
            IF i = 0 THEN [cpos |-> {}, targets |-> <<>>]
            ELSE LET prev == F[i - 1]
                     e    == log[i][1]
                     idx  == log[i][2]
                     k    == Len(CommentLines(e.indent, Strip(e.comment)))
                 IN  [cpos |-> {IF c >= idx THEN c + k ELSE c : c \in prev.cpos}
                                 \cup (idx..(idx + k - 1)),
                      targets |-> Append(prev.targets,
                                      idx - Cardinality({c \in prev.cpos : c < idx}))]
    IN  F[Len(log)].targets

\* C2: after insert_comments no original line has more than one comment
\* block above it, and of two entries with the same anchor and line_number
\* at most one is applied.
C2_OneBlockPerLine ==
    pc = "spliced" =>
        /\ \A i, j \in 1..Len(out_log) :
              i # j => BlockTargets(out_log)[i] # BlockTargets(out_log)[j]
        /\ \A i, j \in 1..Len(out_log) :
              i # j => ~ /\ out_log[i][1].anchor = out_log[j][1].anchor
                         /\ out_log[i][1].line_number = out_log[j][1].line_number

\* the splice the claim describes: every entry is resolved, in descending
\* line_number order, against the unmodified original lines with the claimed
\* set kept as original-line indices; blocks[t] is the block placed above
\* original line t
ReferenceBlocks(orig, es) ==
    LET sorted == SortedComments(es)
        F[i \in 0..Len(sorted)] ==
            IF i = 0 THEN [claimed |-> {}, blocks |-> [t \in {} |-> <<>>]]
            ELSE LET prev == F[i - 1]
                     e    == sorted[i]
                     t    == IF HasFields(e)
                             THEN find_insertion_line(orig, e.line_number,
                                                      Strip(e.anchor), prev.claimed)
                             ELSE None
                 IN  IF t = None THEN prev
                     ELSE [claimed |-> prev.claimed \cup {t},
                           blocks  |-> [u \in prev.claimed \cup {t} |->
                                           IF u = t
                                           THEN CommentLines(e.indent, Strip(e.comment))
                                           ELSE prev.blocks[u]]]
    IN  F[Len(sorted)].blocks

ReferenceSplice(content, es) ==
    LET orig   == SplitOn(content, "\n")
        blocks == ReferenceBlocks(orig, es)
        F[i \in 0..Len(orig)] ==
            IF i = 0 THEN <<>>
            ELSE F[i - 1]
                 \o (IF (i - 1) \in DOMAIN blocks THEN blocks[i - 1] ELSE <<>>)
                 \o <<orig[i]>>
    IN  JoinWith(F[Len(orig)], "\n")

\* C3: the output of insert_comments equals that of the reference splice,
\* which computes every target against the untouched original.
C3_AsIfAgainstOriginal ==
    pc = "spliced" => out_code = ReferenceSplice(src_content, batch)

\* the bag of the elements of a sequence, as a function to counts
CountIn(seq, x) == Cardinality({i \in 1..Len(seq) : seq[i] = x})

\* a is a subsequence of b
IsSubsequence(a, b) ==
    LET F[i \in 0..Len(b)] ==
            \* how many elements of a are matched greedily in the first i of b
            IF i = 0 THEN 0
            ELSE IF F[i - 1] < Len(a) /\ b[i] = a[F[i - 1] + 1]
                 THEN F[i - 1] + 1
                 ELSE F[i - 1]
    IN  F[Len(b)] = Len(a)

\* the comment lines of the applied entries, in log order
AppliedCommentLines ==
    LET F[i \in 0..Len(out_log)] ==
            IF i = 0 THEN <<>>
            ELSE F[i - 1] \o CommentLines(out_log[i][1].indent,
                                          Strip(out_log[i][1].comment))
    IN  F[Len(out_log)]

\* C4: insert_comments only adds lines: the output holds the original lines
\* unaltered and in their order, plus exactly the comment lines of the
\* applied entries; an empty batch returns the original content unchanged.
C4_OnlyAddsLines ==
    pc = "spliced" =>
        /\ IsSubsequence(OriginalLines, OutputLines)
        /\ Len(OutputLines) = Len(OriginalLines) + Len(AppliedCommentLines)
        /\ \A i \in 1..Len(OutputLines) :
              CountIn(OutputLines, OutputLines[i])
                  = CountIn(OriginalLines, OutputLines[i])
                    + CountIn(AppliedCommentLines, OutputLines[i])
        /\ (batch = <<>> => out_code = src_content)

\* a batch of two applied multi-line and single-line blocks was spliced
C4_Witness ==
    /\ pc = "spliced"
    /\ Len(out_log) = 2
    /\ Len(AppliedCommentLines) = 4
    /\ Len(OriginalLines) = MaxLines

\* no line of the source file matches the entry's anchor, as a substring or
\* by the anchor matcher
MatchesNowhere(e) ==
    \A k \in 1..Len(OriginalLines) :
        /\ ~ Contains(Strip(e.anchor), OriginalLines[k])
        /\ ~ soft_match_anchor(Strip(e.anchor), OriginalLines[k])

\* the sequence without its i-th element
WithoutAt(seq, i) == SubSeq(seq, 1, i - 1) \o SubSeq(seq, i + 1, Len(seq))

\* C8: an entry with missing fields, or whose anchor matches no line of the
\* file, is dropped: the output is that of the batch without the entry.
C8_UnresolvableDropped ==
    pc = "spliced" =>
        \A i \in 1..Len(batch) :
            (~ HasFields(batch[i]) \/ MatchesNowhere(batch[i])) =>
                out_code = insert_comments(src_content, WithoutAt(batch, i))

(***************************************************************************)
(* Specification of the resolver: find_insertion_line applied to a file,   *)
(* a reported line number, an anchor and a set of claimed indices          *)
(***************************************************************************)

\* longest file given to find_insertion_line, in lines
MaxResolveLines == 7

\* most declaration lines in one of those files
MaxDecls == 2

\* the declaration lines: the anchor's class, and a class whose name only
\* starts with that name
DeclLines == {"class Foo", "class Foobar"}

\* the lines of those files: declarations, and a line that is none
ResolveLines == DeclLines \cup {"end"}

\* the files given to find_insertion_line
ResolveFiles ==
    {ls \in UNION {[1..n -> ResolveLines] : n \in 1..MaxResolveLines} :
        Cardinality({i \in 1..Len(ls) : ls[i] \in DeclLines}) <= MaxDecls}

ResolveAnchors == {"class Foo"}

InitResolve ==
    /\ r_lines \in ResolveFiles
    /\ r_line_number \in 0..(MaxResolveLines + 1)
    /\ r_anchor \in ResolveAnchors
    /\ r_claimed \in {{}} \cup {{i} : i \in 0..(MaxResolveLines - 1)}
    /\ r_result = None
    /\ rpc = "call"
    /\ SpliceIdle
    /\ RunIdle
    /\ ToolsIdle

\* insert_idx = self.find_insertion_line(lines, line_number, anchor, inserted_at_lines)
Resolve ==
    /\ rpc = "call"
    /\ r_result' = find_insertion_line(r_lines, r_line_number, r_anchor, r_claimed)
    /\ rpc' = "done"
    /\ UNCHANGED <<r_lines, r_line_number, r_anchor, r_claimed, spliceVars, runVars, toolVars>>

NextResolve == Resolve

SpecResolve == InitResolve /\ [][NextResolve]_vars

(***************************************************************************)
(* Properties of the resolver                                              *)
(***************************************************************************)

Abs(x) == IF x < 0 THEN -x ELSE x

\* the index the reported line number stands for
ExpectedIdx == r_line_number - 1

ExpectedInBounds == ExpectedIdx >= 0 /\ ExpectedIdx < Len(r_lines)

\* the indices of the lines the anchor matcher accepts
MatcherAccepts == {i \in 0..(Len(r_lines) - 1) : soft_match_anchor(r_anchor, r_lines[i + 1])}

\* the line at the expected index is accepted there: it contains the anchor
\* as a substring, or the anchor matcher accepts it
ExpectedLineMatches ==
    \/ Contains(r_anchor, r_lines[ExpectedIdx + 1])
    \/ ExpectedIdx \in MatcherAccepts

\* the reported line number is in bounds and unclaimed, and exactly one line
\* of the file is accepted by the anchor matcher, an unclaimed one
UniqueDeclaration ==
    /\ ExpectedInBounds
    /\ ExpectedIdx \notin r_claimed
    /\ LET accepted == MatcherAccepts
       IN  Cardinality(accepted) = 1 /\ accepted \cap r_claimed = {}

\* C5 as stated: with a unique matching, unclaimed line the resolver
\* returns that line's index however far it is from the reported line.
C5_DriftTolerance_Original ==
    (rpc = "done" /\ UniqueDeclaration) => r_result \in MatcherAccepts

\* C5 amended: the same, provided the line at the reported number does not
\* merely contain the anchor text (unless it is the matching line itself).
C5_DriftTolerance ==
    (/\ rpc = "done"
     /\ UniqueDeclaration
     /\ (ExpectedIdx \in MatcherAccepts \/ ~ Contains(r_anchor, r_lines[ExpectedIdx + 1])))
        => r_result \in MatcherAccepts

\* the declaration was found further than Window lines from the reported line
C5_Witness ==
    /\ rpc = "done"
    /\ UniqueDeclaration
    /\ ~ Contains(r_anchor, r_lines[ExpectedIdx + 1])
    /\ r_result \in MatcherAccepts
    /\ Abs(r_result - ExpectedIdx) > Window

\* the unclaimed lines, other than the expected one, the matcher accepts
Candidates == {i \in MatcherAccepts : i # ExpectedIdx /\ i \notin r_claimed}

NearCandidates == {i \in Candidates : Abs(i - ExpectedIdx) <= Window}

\* C6: when the expected line does not match, the candidates within Window
\* of it are tried closest first, then the rest of the file in index order,
\* and the first one the matcher accepts is returned.
C6_ClosestFirst ==
    (/\ rpc = "done"
     /\ ExpectedInBounds
     /\ ExpectedIdx \notin r_claimed
     /\ ~ ExpectedLineMatches)
        => IF Candidates = {} THEN r_result = None
           ELSE IF NearCandidates # {}
           THEN /\ r_result \in NearCandidates
                /\ \A c \in NearCandidates :
                      Abs(r_result - ExpectedIdx) <= Abs(c - ExpectedIdx)
           ELSE r_result = SetMin(Candidates)

\* C7: when the expected index is out of bounds or already claimed the
\* resolver returns not-found, whatever else in the file matches.
C7_FailsWithoutSearching ==
    (rpc = "done" /\ (~ ExpectedInBounds \/ ExpectedIdx \in r_claimed))
        => r_result = None

\* the expected index is claimed, the line there and another, unclaimed line
\* both match the anchor, and the resolver returned not-found
C7_Witness ==
    /\ rpc = "done"
    /\ ExpectedInBounds
    /\ ExpectedIdx \in r_claimed
    /\ ExpectedIdx \in MatcherAccepts
    /\ MatcherAccepts \ r_claimed # {}
    /\ r_result = None

(***************************************************************************)
(* Fingerprint of a source file: compute_code_hash                         *)
(***************************************************************************)

\* the tags that make a comment line a YARD line
YardTags == {"@param", "@return", "@example", "@note", "@see", "@yield"}

\* whether compute_code_hash keeps the line
IsCodeLine(line) ==
    LET stripped == Strip(line)
    IN  IF StartsWith(stripped, "#") /\ \E tag \in YardTags : Contains(tag, stripped)
        THEN FALSE
        ELSE IF StartsWith(stripped, "#") /\ Len(stripped) > 1 /\ CharAt(stripped, 2) = " "
        THEN \/ StartsWith(stripped, "#!")
             \/ Contains("coding:", stripped)
             \/ Contains("encoding:", stripped)
        ELSE TRUE

\* hashlib.sha256(...).hexdigest()[:16]: the digest is taken to be free of
\* collisions, so it is represented by the text it is computed from
Sha256Hex16(code_content) == code_content

compute_code_hash(content) ==
    LET code_lines == SelectSeq(SplitOn(content, "\n"), IsCodeLine)
    IN  Sha256Hex16(JoinWith(code_lines, "\n"))

(***************************************************************************)
(* The directory run: main, process_directory, the pool and the manifest   *)
(***************************************************************************)

\* number of times the generator is started on the directory
MaxRuns == 2

\* largest value of parallel_workers
MaxWorkers == 2

\* number of edits made to the source files while the model runs
MaxEdits == 1

\* directory.rglob('*.rb'), in the order it lists the files
RubyFiles == <<"lib/a.rb", "lib/b.rb">>

Paths == {RubyFiles[i] : i \in 1..Len(RubyFiles)}

\* file_path.name
FileName(path) ==
    LET parts == SplitOn(path, "/") IN parts[Len(parts)]

\* the texts a source file can hold
SourceTexts == {"def a", "def b"}

Workers == 1..MaxWorkers

NoFile == ""

IdleWorker == [pc |-> "idle", file |-> NoFile, content |-> "", result |-> "",
               success |-> FALSE]

\* f with f[k] set to v, k added to its domain when new
Put(f, k, v) == [x \in DOMAIN f \cup {k} |-> IF x = k THEN v ELSE f[x]]

\* the elements of a list
Elems(seq) == {seq[k] : k \in 1..Len(seq)}

\* the entries the provider returns for a source text: one block for the
\* declaration on its first line
ProviderComments(content) ==
    <<[line_number |-> 1, anchor |-> SplitOn(content, "\n")[1],
       indent |-> 0, comment |-> "# doc"]>>

is_file_processed(file_path) ==
    IF ~ incremental THEN FALSE
    ELSE IF file_path \in DOMAIN manifest.processed_files
    THEN IF FileName(file_path) \notin DOMAIN documented THEN FALSE
         ELSE compute_code_hash(source[file_path])
                  = manifest.processed_files[file_path].content_hash
    ELSE FALSE

\* the manifest after the update mark_file_processed makes for the path
MarkedManifest(m, file_path, success) ==
    IF success
    THEN [m EXCEPT !.processed_files =
              Put(@, file_path,
                  [timestamp    |-> run,
                   content_hash |-> compute_code_hash(source[file_path]),
                   file_name    |-> FileName(file_path)])]
    ELSE IF file_path \in Elems(m.failed_files)
    THEN m
    ELSE [m EXCEPT !.failed_files = Append(@, file_path)]

\* a thread may take the manifest lock without waiting: it is free, or the
\* thread holds it already (threading.RLock)
CanAcquire_Unlocked(w) == TRUE

CanAcquire(w) == manifest_lock.owner \in {NoOwner, w}

\* the threads that process files: the pool's threads in parallel mode, the
\* main thread (thread 1) in sequential mode
ActiveWorkers ==
    IF phase = "pool" THEN 1..parallel_workers
    ELSE IF phase = "sequential" THEN {1}
    ELSE {}

\* the output directory an earlier, complete run (run 0) has left behind for
\* the source text every file starts with
EarlierOutputs ==
    [n \in {FileName(p) : p \in Paths} |->
        [text |-> insert_comments("def a", ProviderComments("def a")), mtime |-> 0]]

EarlierManifest ==
    [processed_files |->
         [p \in Paths |-> [timestamp    |-> 0,
                           content_hash |-> compute_code_hash("def a"),
                           file_name    |-> FileName(p)]],
     failed_files |-> <<>>]

\* the generator is started on a directory never documented before, or on
\* one that an earlier run has documented completely
InitRun ==
    /\ source = [p \in Paths |-> "def a"]
    /\ edits = 0
    /\ \/ /\ documented = <<>>
          /\ manifest_file = [exists |-> FALSE, data |-> EmptyManifest]
       \/ /\ documented = EarlierOutputs
          /\ manifest_file = [exists |-> TRUE, data |-> EarlierManifest]
    /\ manifest = EmptyManifest
    /\ manifest_lock = [owner |-> NoOwner, count |-> 0]
    /\ failed_files = <<>>
    /\ incremental = TRUE
    /\ parallel_workers = 1
    /\ run = 0
    /\ phase = "stopped"
    /\ queue = <<>>
    /\ processed = 0
    /\ worker = [w \in Workers |-> IdleWorker]
    /\ results = <<>>
    /\ exit_code = 0
    /\ last_run = <<>>
    /\ SpliceIdle
    /\ ResolveIdle
    /\ ToolsIdle

\* main: the generator is constructed (__init__ with load_manifest)
StartRun ==
    /\ phase = "stopped"
    /\ run < MaxRuns
    /\ run' = run + 1
    /\ incremental' \in BOOLEAN
    /\ parallel_workers' \in 1..MaxWorkers
    /\ manifest' = IF manifest_file.exists THEN manifest_file.data ELSE EmptyManifest
    /\ manifest_lock' = [owner |-> NoOwner, count |-> 0]
    /\ failed_files' = <<>>
    /\ phase' = "filter"
    /\ queue' = <<>>
    /\ processed' = 0
    /\ worker' = [w \in Workers |-> IdleWorker]
    /\ results' = <<>>
    /\ exit_code' = 0
    /\ last_run' = results
    /\ UNCHANGED <<diskVars, spliceVars, resolveVars, toolVars>>

\* process_directory: the files already processed are filtered out and the
\* processing mode is chosen
FilterFiles ==
    /\ phase = "filter"
    /\ LET files_to_process == SelectSeq(RubyFiles, LAMBDA f : ~ is_file_processed(f))
       IN  /\ queue' = files_to_process
           /\ processed' = Len(RubyFiles) - Len(files_to_process)
           /\ results' = [f \in Elems(files_to_process) |-> "pending"]
           /\ phase' = IF files_to_process = <<>> THEN "summary"
                       ELSE IF parallel_workers > 1 /\ Len(files_to_process) > 1
                       THEN "pool"
                       ELSE "sequential"
    /\ UNCHANGED <<diskVars, generatorVars, run, worker, exit_code,
                   spliceVars, resolveVars, historyVars, toolVars>>

\* a thread starts on the next file of the list; the threads of the pool are
\* interchangeable, so the file goes to the free thread of lowest number
TakeFile(w) ==
    /\ w \in ActiveWorkers
    /\ worker[w].pc = "idle"
    /\ \A v \in ActiveWorkers : v < w => worker[v].pc # "idle"
    /\ queue # <<>>
    /\ worker' = [worker EXCEPT ![w] = [IdleWorker EXCEPT !.pc = "read",
                                                          !.file = Head(queue)]]
    /\ queue' = Tail(queue)
    /\ UNCHANGED <<diskVars, generatorVars, run, phase, processed, results,
                   exit_code, spliceVars, resolveVars, historyVars, toolVars>>

\* process_file: the source file is read; a read error is caught in
\* process_file, which records the file name and returns None
ReadSource(w) ==
    /\ worker[w].pc = "read"
    /\ \E readable \in BOOLEAN :
          IF readable
          THEN /\ worker' = [worker EXCEPT ![w].content = source[worker[w].file],
                                           ![w].pc = "generate"]
               /\ UNCHANGED failed_files
          ELSE /\ worker' = [worker EXCEPT ![w].success = FALSE, ![w].pc = "mark"]
               /\ failed_files' = Append(failed_files, FileName(worker[w].file))
    /\ UNCHANGED <<diskVars, manifest, manifest_lock, incremental, parallel_workers,
                   run, phase, queue, processed, results, exit_code,
                   spliceVars, resolveVars, historyVars, toolVars>>

\* what provider.generate followed by extract_comments_json comes to
ProviderOutcomes == {"documented", "no_comments", "error"}

\* process_file: the provider is asked, its response parsed and spliced; the
\* caller then tests the result (if result:)
Generate(w) ==
    /\ worker[w].pc = "generate"
    /\ \E outcome \in ProviderOutcomes :
          IF outcome = "documented"
          THEN LET documented_code ==
                       insert_comments(worker[w].content,
                                       ProviderComments(worker[w].content))
               IN  /\ worker' = [worker EXCEPT
                          ![w].result = documented_code,
                          ![w].success = FALSE,
                          ![w].pc = IF documented_code # "" THEN "write" ELSE "mark"]
                   /\ processed' = IF phase = "sequential" /\ documented_code # ""
                                    THEN processed + 1 ELSE processed
                   /\ UNCHANGED failed_files
          ELSE /\ worker' = [worker EXCEPT ![w].success = FALSE, ![w].pc = "mark"]
               /\ failed_files' = Append(failed_files, FileName(worker[w].file))
               /\ UNCHANGED processed
    /\ UNCHANGED <<diskVars, manifest, manifest_lock, incremental, parallel_workers,
                   run, phase, queue, results, exit_code, spliceVars, resolveVars, historyVars, toolVars>>

\* the write step without the write: the result is taken as saved although
\* documented/<file name> was not touched
WriteOutput_Skipped(w) ==
    /\ worker[w].pc = "write"
    /\ worker' = [worker EXCEPT ![w].success = TRUE, ![w].pc = "mark"]
    /\ UNCHANGED <<diskVars, generatorVars, run, phase, queue, processed, results,
                   exit_code, spliceVars, resolveVars, historyVars, toolVars>>

\* the spliced text is written to documented/<file name> (in the pool under
\* file_lock, in one step here).  A write error is caught in the pool
\* (_process_single_file marks the file failed); in the sequential loop
\* nothing catches it and it ends process_directory and main
WriteOutput(w) ==
    /\ worker[w].pc = "write"
    /\ \E writable \in BOOLEAN :
          IF writable
          THEN /\ documented' = Put(documented, FileName(worker[w].file),
                                    [text |-> worker[w].result, mtime |-> run])
               /\ worker' = [worker EXCEPT ![w].success = TRUE, ![w].pc = "mark"]
               /\ UNCHANGED <<phase, exit_code, results>>
          ELSE IF phase = "pool"
          THEN /\ worker' = [worker EXCEPT ![w].success = FALSE, ![w].pc = "mark"]
               /\ UNCHANGED <<documented, phase, exit_code, results>>
          ELSE /\ worker' = [worker EXCEPT ![w] = IdleWorker]
               /\ phase' = "stopped"
               /\ exit_code' = 1
               /\ results' = [results EXCEPT ![worker[w].file] = "raised"]
               /\ UNCHANGED documented
    /\ UNCHANGED <<source, edits, manifest_file, generatorVars, run, queue,
                   processed, spliceVars, resolveVars, historyVars, toolVars>>

\* mark_file_processed: with self.manifest_lock
MarkAcquire(w) ==
    /\ worker[w].pc = "mark"
    /\ CanAcquire(w)
    /\ manifest_lock' = [owner |-> w, count |-> manifest_lock.count + 1]
    /\ worker' = [worker EXCEPT ![w].pc = "update"]
    /\ UNCHANGED <<diskVars, manifest, failed_files, incremental, parallel_workers,
                   run, phase, queue, processed, results, exit_code,
                   spliceVars, resolveVars, historyVars, toolVars>>

\* mark_file_processed: the in-memory manifest is updated
MarkUpdate(w) ==
    /\ worker[w].pc = "update"
    /\ manifest' = MarkedManifest(manifest, worker[w].file, worker[w].success)
    /\ worker' = [worker EXCEPT ![w].pc = "save"]
    /\ UNCHANGED <<diskVars, manifest_lock, failed_files, incremental,
                   parallel_workers, run, phase, queue, processed, results,
                   exit_code, spliceVars, resolveVars, historyVars, toolVars>>

\* save_manifest: the lock is taken again and the manifest file is opened
\* for writing, which truncates it (a truncated file loads as the empty
\* manifest)
SaveOpen(w) ==
    /\ worker[w].pc = "save"
    /\ CanAcquire(w)
    /\ manifest_lock' = [owner |-> w, count |-> manifest_lock.count + 1]
    /\ manifest_file' = [exists |-> TRUE, data |-> EmptyManifest]
    /\ worker' = [worker EXCEPT ![w].pc = "dump"]
    /\ UNCHANGED <<source, edits, documented, manifest, failed_files, incremental,
                   parallel_workers, run, phase, queue, processed, results,
                   exit_code, spliceVars, resolveVars, historyVars, toolVars>>

\* save_manifest that leaves the writing of the manifest to the end of the
\* run: the file on disk stays as it was opened
SaveDump_Deferred(w) ==
    /\ worker[w].pc = "dump"
    /\ manifest_lock' = [manifest_lock EXCEPT !.count = @ - 1]
    /\ worker' = [worker EXCEPT ![w].pc = "release"]
    /\ UNCHANGED <<diskVars, manifest, failed_files, incremental,
                   parallel_workers, run, phase, queue, processed, results,
                   exit_code, spliceVars, resolveVars, historyVars, toolVars>>

\* save_manifest: json.dump(self.manifest, f), the file is closed and the
\* inner hold on the lock is given up
SaveDump(w) ==
    /\ worker[w].pc = "dump"
    /\ manifest_file' = [exists |-> TRUE, data |-> manifest]
    /\ manifest_lock' = [manifest_lock EXCEPT !.count = @ - 1]
    /\ worker' = [worker EXCEPT ![w].pc = "release"]
    /\ UNCHANGED <<source, edits, documented, manifest, failed_files, incremental,
                   parallel_workers, run, phase, queue, processed, results,
                   exit_code, spliceVars, resolveVars, historyVars, toolVars>>

\* mark_file_processed returns: the lock is released and the file is done
\* (the pool counts the files whose future returns True)
MarkRelease(w) ==
    /\ worker[w].pc = "release"
    /\ manifest_lock' = IF manifest_lock.count <= 1
                        THEN [owner |-> NoOwner, count |-> 0]
                        ELSE [manifest_lock EXCEPT !.count = @ - 1]
    /\ results' = [results EXCEPT ![worker[w].file] =
                       IF worker[w].success THEN "ok" ELSE "failed"]
    /\ processed' = IF phase = "pool" /\ worker[w].success
                    THEN processed + 1 ELSE processed
    /\ worker' = [worker EXCEPT ![w] = IdleWorker]
    /\ UNCHANGED <<diskVars, manifest, failed_files, incremental, parallel_workers,
                   run, phase, queue, exit_code, spliceVars, resolveVars, historyVars, toolVars>>

\* every file of the list has been handled: the pool is shut down or the
\* sequential loop ends
Finish ==
    /\ phase \in {"pool", "sequential"}
    /\ queue = <<>>
    /\ \A w \in Workers : worker[w].pc = "idle"
    /\ phase' = "summary"
    /\ UNCHANGED <<diskVars, generatorVars, run, queue, processed, worker, results,
                   exit_code, spliceVars, resolveVars, historyVars, toolVars>>

\* main: the summary is printed and the exit status set from stats['failed']
Exit ==
    /\ phase = "summary"
    /\ exit_code' = IF Len(failed_files) > 0 THEN 1 ELSE 0
    /\ phase' = "stopped"
    /\ UNCHANGED <<diskVars, generatorVars, run, queue, processed, worker, results,
                   spliceVars, resolveVars, historyVars, toolVars>>

\* the environment: somebody edits a source file
EditSource ==
    /\ edits < MaxEdits
    /\ \E p \in Paths, text \in SourceTexts :
          /\ text # source[p]
          /\ source' = [source EXCEPT ![p] = text]
    /\ edits' = edits + 1
    /\ UNCHANGED <<documented, manifest_file, generatorVars, directoryVars,
                   spliceVars, resolveVars, historyVars, toolVars>>

\* exit status of a process ended by SIGINT (128 + signal number)
Interrupted == 128 + 2

\* the process is interrupted (Ctrl-C, kill) while the files are handled:
\* the threads end where they are, nothing more is written
Interrupt ==
    /\ phase \in {"pool", "sequential"}
    /\ phase' = "stopped"
    /\ exit_code' = Interrupted
    /\ results' = [f \in DOMAIN results |->
                       IF \E w \in Workers : worker[w].pc # "idle" /\ worker[w].file = f
                       THEN "killed" ELSE results[f]]
    /\ worker' = [w \in Workers |-> IdleWorker]
    /\ manifest_lock' = [owner |-> NoOwner, count |-> 0]
    /\ UNCHANGED <<diskVars, manifest, failed_files, incremental, parallel_workers,
                   run, queue, processed, spliceVars, resolveVars, historyVars, toolVars>>

Work(w) ==
    \/ TakeFile(w)
    \/ ReadSource(w)
    \/ Generate(w)
    \/ WriteOutput(w)
    \/ MarkAcquire(w)
    \/ MarkUpdate(w)
    \/ SaveOpen(w)
    \/ SaveDump(w)
    \/ MarkRelease(w)

NextRun ==
    \/ StartRun
    \/ FilterFiles
    \/ \E w \in Workers : Work(w)
    \/ Finish
    \/ Exit
    \/ Interrupt
    \/ EditSource

SpecRun == InitRun /\ [][NextRun]_vars

(***************************************************************************)
(* Properties of the directory run                                         *)
(***************************************************************************)

\* the thread is inside mark_file_processed's with-block
InManifestSection(w) == worker[w].pc \in {"update", "save", "dump", "release"}

MutualExclusion ==
    \A w1 \in Workers, w2 \in Workers :
        (w1 # w2 /\ InManifestSection(w1)) => ~ InManifestSection(w2)

\* the manifest holds the outcome of the file as handled in this run
HoldsOutcome(m, f) ==
    IF results[f] = "ok"
    THEN /\ f \in DOMAIN m.processed_files
         /\ m.processed_files[f].timestamp = run
    ELSE f \in Elems(m.failed_files)

\* all the threads of a run have finished
AllFinished ==
    /\ phase = "summary"
    /\ \A f \in DOMAIN results : results[f] # "pending"

PersistedThisRun ==
    {p \in DOMAIN manifest.processed_files :
        manifest.processed_files[p].timestamp = run}

\* the documented output of the path was written in this run
OutputWritten(p) ==
    /\ FileName(p) \in DOMAIN documented
    /\ documented[FileName(p)].mtime = run

\* C10: in every state of a directory run, a path whose processed_files
\* entry was set in this run has its documented output already written in
\* this run; the entry is never set before or without the write.
C10_PersistedAfterWrite ==
    \A p \in PersistedThisRun : OutputWritten(p)

\* in a second run a file is persisted again after its output was rewritten
C10_Witness ==
    /\ run = 2
    /\ \E p \in PersistedThisRun :
          /\ OutputWritten(p)
          /\ manifest_file.exists
          /\ p \in DOMAIN manifest_file.data.processed_files
          /\ manifest_file.data.processed_files[p].timestamp = run

\* the handling of the file ended in a failure: it was marked failed, or
\* the error left process_directory
FailedOutcome(o) == o \in {"failed", "raised"}

\* the files of the list FilterFiles has built for the current run
FilesToProcess == DOMAIN results

\* the current run has built its list of files
Filtered == run > 0 /\ phase # "filter"

\* C11: when the handling of a file ends in a failure, the path is recorded
\* in failed_files of the manifest (in memory and on disk), no
\* processed_files entry (and so no content_hash) is set for it in this run,
\* and the next run processes the file again instead of skipping it.
C11_FailureRetried ==
    /\ \A f \in FilesToProcess :
          FailedOutcome(results[f]) =>
              /\ f \in Elems(manifest.failed_files)
              /\ manifest_file.exists
              /\ f \in Elems(manifest_file.data.failed_files)
              /\ f \in DOMAIN manifest.processed_files
                     => manifest.processed_files[f].timestamp < run
    /\ Filtered =>
          \A f \in DOMAIN last_run :
              FailedOutcome(last_run[f]) => f \in FilesToProcess

\* the handling of the file has come to its end with a mark in the manifest
Marked(o) == o \in {"ok", "failed"}

\* no file of the run was being handled when the run was interrupted
BetweenFiles(outcomes) == \A f \in DOMAIN outcomes : outcomes[f] # "killed"

\* the manifest file is not being rewritten at this moment
ManifestFileClosed == \A w \in Workers : worker[w].pc # "dump"

\* after every file outcome the manifest on disk holds the outcome
RewrittenAfterEveryFile ==
    (ManifestFileClosed /\ BetweenFiles(results)) =>
        \A f \in FilesToProcess :
            Marked(results[f]) =>
                manifest_file.exists /\ HoldsOutcome(manifest_file.data, f)

\* the file is persisted on disk, its source has the fingerprint stored
\* there, and its output exists
PersistedUnchanged(f) ==
    /\ manifest_file.exists
    /\ f \in DOMAIN manifest_file.data.processed_files
    /\ compute_code_hash(source[f]) = manifest_file.data.processed_files[f].content_hash
    /\ FileName(f) \in DOMAIN documented

\* the step in which an incremental run that follows a run not interrupted
\* inside a file builds its list: it leaves out exactly the files persisted
\* and unchanged
ResumeStep ==
    (phase = "filter" /\ phase' # "filter" /\ incremental /\ BetweenFiles(last_run)) =>
        \A f \in Paths : (f \notin Elems(queue')) <=> PersistedUnchanged(f)

\* a provider request is only ever sent for a file of the list
RequestsOnlyForListed ==
    \A w \in Workers : worker[w].pc # "idle" => worker[w].file \in FilesToProcess

RunEnded == phase = "stopped" /\ run > 0 /\ exit_code # Interrupted

\* C13: in a multi-file run a failure while handling one file is recovered
\* at that file: the error never leaves process_directory, and when the run
\* has ended every file of the list has been handled and marked, in
\* sequential mode as well as in parallel mode.
C13_FailureRecovered ==
    /\ \A f \in FilesToProcess : results[f] # "raised"
    /\ RunEnded => \A f \in FilesToProcess : Marked(results[f])

\* the files that ended the run marked failed in the manifest
MarkedFailed == {f \in FilesToProcess : results[f] = "failed"}

\* main has printed the summary and set the exit status
SummaryPrinted == RunEnded /\ \A f \in FilesToProcess : Marked(results[f])

\* C14: at the end of a directory run the summary's failed count and failed
\* list (stats['failed'], stats['failed_files']) cover exactly the files
\* that ended this run marked failed in the manifest, and the exit status
\* is non-zero if and only if at least one file failed.
C14_SummaryMatchesManifest ==
    SummaryPrinted =>
        /\ Elems(failed_files) = {FileName(f) : f \in MarkedFailed}
        /\ Len(failed_files) = Cardinality(MarkedFailed)
        /\ (exit_code # 0) <=> (MarkedFailed # {})

(***************************************************************************)
(* The provider call: AnthropicProvider.generate with its retry loop, and  *)
(* the process_file that calls it for one file after the other             *)
(***************************************************************************)

LowerAlphabet == "abcdefghijklmnopqrstuvwxyz"

UpperAlphabet == "ABCDEFGHIJKLMNOPQRSTUVWXYZ"

\* str.lower() of one character
LowerChar(c) ==
    IF \E i \in 1..Len(UpperAlphabet) : CharAt(UpperAlphabet, i) = c
    THEN CharAt(LowerAlphabet, CHOOSE i \in 1..Len(UpperAlphabet) : CharAt(UpperAlphabet, i) = c)
    ELSE c

\* p in s.lower(), character by character
InLower(p, s) ==
    \E i \in 1..(Len(s) - Len(p) + 1) :
        \A k \in 1..Len(p) : LowerChar(CharAt(s, i + k - 1)) = CharAt(p, k)

max_retries == 3

base_delay == 5

\* number of files process_file is called for
MaxProviderFiles == 2

\* the exceptions self.client.messages.create can raise: what the failure
\* is, and the text str(e) gives for it
Failures ==
    {[kind |-> "rate_limit", text |-> "Error code: 429 - rate_limit_error"],
     [kind |-> "rate_limit", text |-> "Rate_Limit reached"],
     [kind |-> "timeout",    text |-> "Request timed out."],
     [kind |-> "hard",       text |-> "Error code: 401 - invalid x-api-key"],
     [kind |-> "hard",       text |-> "Error code: 500 - request_id req_0429"]}

NoError == [kind |-> "none", text |-> ""]

\* the exception generate raises when the retries are used up
RetriesExhausted ==
    [kind |-> "exhausted", text |-> "Anthropic rate limit exceeded after 3 retries."]

\* a test that takes every error for a rate limit
LooksRateLimited_AnyError(error_str) == TRUE

\* the test generate makes on str(e)
LooksRateLimited(error_str) ==
    InLower("rate_limit", error_str) \/ Contains("429", error_str)

InitProvider ==
    /\ g_pc = "call"
    /\ g_attempt = 0
    /\ g_requests = 0
    /\ g_sleeps = <<>>
    /\ g_error = NoError
    /\ g_file = 1
    /\ g_failed = <<>>
    /\ g_marked = {}
    /\ SpliceIdle
    /\ ResolveIdle
    /\ RunIdle
    /\ JsonIdle
    /\ HashIdle
    /\ MatchIdle
    /\ FileIdle
    /\ ConfigIdle
    /\ OutputIdle

\* process_file calls self.provider.generate: the loop starts
Call ==
    /\ g_pc = "call"
    /\ g_attempt' = 0
    /\ g_requests' = 0
    /\ g_sleeps' = <<>>
    /\ g_error' = NoError
    /\ g_pc' = "request"
    /\ UNCHANGED <<g_file, g_failed, g_marked, spliceVars, resolveVars, runVars, notProviderVars>>

\* one pass of 'for attempt in range(max_retries)': the request is sent and
\* answered or fails; a loop that ran out would return None
Request ==
    /\ g_pc = "request"
    /\ IF g_attempt < max_retries
       THEN /\ g_requests' = g_requests + 1
            /\ \/ g_pc' = "returned" /\ UNCHANGED g_error
               \/ \E e \in Failures : g_error' = e /\ g_pc' = "except"
       ELSE g_pc' = "returned" /\ UNCHANGED <<g_requests, g_error>>
    /\ UNCHANGED <<g_attempt, g_sleeps, g_file, g_failed, g_marked,
                   spliceVars, resolveVars, runVars, notProviderVars>>

\* the except branch: a rate-limited request is retried unless it was the
\* last attempt, any other error is raised again
Except ==
    /\ g_pc = "except"
    /\ IF LooksRateLimited(g_error.text)
       THEN IF g_attempt < max_retries - 1
            THEN g_pc' = "sleep" /\ UNCHANGED g_error
            ELSE g_pc' = "raised" /\ g_error' = RetriesExhausted
       ELSE g_pc' = "raised" /\ UNCHANGED g_error
    /\ UNCHANGED <<g_attempt, g_requests, g_sleeps, g_file, g_failed, g_marked,
                   spliceVars, resolveVars, runVars, notProviderVars>>

\* time.sleep(base_delay * (2 ** attempt)); continue
Sleep ==
    /\ g_pc = "sleep"
    /\ g_sleeps' = Append(g_sleeps, base_delay * (2 ^ g_attempt))
    /\ g_attempt' = g_attempt + 1
    /\ g_pc' = "request"
    /\ UNCHANGED <<g_requests, g_error, g_file, g_failed, g_marked,
                   spliceVars, resolveVars, runVars, notProviderVars>>

\* process_file catches what generate raised: the file name goes to
\* failed_files and None is returned
FileFailed ==
    /\ g_pc = "raised"
    /\ g_failed' = Append(g_failed, g_file)
    /\ g_pc' = "recorded"
    /\ UNCHANGED <<g_attempt, g_requests, g_sleeps, g_error, g_file, g_marked,
                   spliceVars, resolveVars, runVars, notProviderVars>>

\* the caller of process_file gets None: mark_file_processed(success=False)
MarkFailed ==
    /\ g_pc = "recorded"
    /\ g_marked' = g_marked \cup {g_file}
    /\ g_pc' = "file_done"
    /\ UNCHANGED <<g_attempt, g_requests, g_sleeps, g_error, g_file, g_failed,
                   spliceVars, resolveVars, runVars, notProviderVars>>

\* generate has returned the response: process_file goes on with it
FileAnswered ==
    /\ g_pc = "returned"
    /\ g_pc' = "file_done"
    /\ UNCHANGED <<g_attempt, g_requests, g_sleeps, g_error, g_file, g_failed,
                   g_marked, spliceVars, resolveVars, runVars, notProviderVars>>

\* the worker proceeds to its next file
NextFile ==
    /\ g_pc = "file_done"
    /\ g_file < MaxProviderFiles
    /\ g_file' = g_file + 1
    /\ g_pc' = "call"
    /\ UNCHANGED <<g_attempt, g_requests, g_sleeps, g_error, g_failed, g_marked,
                   spliceVars, resolveVars, runVars, notProviderVars>>

NextProvider ==
    \/ Call
    \/ Request
    \/ Except
    \/ Sleep
    \/ FileFailed
    \/ MarkFailed
    \/ FileAnswered
    \/ NextFile

\* every request is answered or fails in the end (the client's own timeout),
\* and a thread that can take a step takes it
SpecProvider == InitProvider /\ [][NextProvider]_vars /\ WF_vars(NextProvider)

(***************************************************************************)
(* Properties of the provider call                                         *)
(***************************************************************************)

\* at most max_retries requests are sent in one call
BoundedAttempts == g_requests <= max_retries

\* the delays slept so far in the call: 5 s, then 10 s
BackoffDelays ==
    /\ Len(g_sleeps) <= 2
    /\ Len(g_sleeps) >= 1 => g_sleeps[1] = 5
    /\ Len(g_sleeps) >= 2 => g_sleeps[2] = 10

\* a failed request of one of the kinds is followed by a sleep and another
\* request, unless it was the last attempt
RetryStep(kinds) ==
    (g_pc = "except" /\ g_error.kind \in kinds /\ g_attempt < max_retries - 1)
        => g_pc' = "sleep"

\* a failed request of one of the kinds makes generate raise at once, with
\* no sleep and no further request
RaiseStep(kinds) ==
    (g_pc = "except" /\ g_error.kind \in kinds)
        => (g_pc' = "raised" /\ g_sleeps' = g_sleeps /\ g_requests' = g_requests)

\* with the attempts used up generate raises
ExhaustedStep ==
    (g_pc = "except" /\ g_attempt >= max_retries - 1) => g_pc' = "raised"

\* a call of generate comes to an end
CallTerminates == (g_pc = "request") ~> (g_pc \in {"returned", "raised"})

\* what generate raises becomes a failure of the file
RaiseBecomesFileFailure ==
    \A f \in 1..MaxProviderFiles :
        (g_pc = "raised" /\ g_file = f) ~> (f \in Elems(g_failed) /\ f \in g_marked)

C16_HardFailureNotRetried ==
    /\ [][RaiseStep({"hard", "timeout"})]_vars
    /\ RaiseBecomesFileFailure
    /\ \A f \in 1..(MaxProviderFiles - 1) :
          (g_pc = "raised" /\ g_file = f) ~> (g_file = f + 1)


(***************************************************************************)
(* json.loads, for the texts of a response: strings with escapes,          *)
(* integers, true/false/null, arrays and objects                           *)
(***************************************************************************)

\* a TLA+ string cannot hold a backquote: the tilde stands for it in every
\* text below, and no text holds a tilde of its own
Backquote == "~"

\* the printable ASCII characters, in code order from 32 (space) to 125 (})
Printable ==
    " !\"#$%&'()*+,-./0123456789:;<=>?@ABCDEFGHIJKLMNOPQRSTUVWXYZ[\\]^_"
        \o Backquote \o "abcdefghijklmnopqrstuvwxyz{|}"

\* ord(c) of a printable character
Ord(c) == 31 + (CHOOSE i \in 1..Len(Printable) : CharAt(Printable, i) = c)

\* the character at position i, or "" past the end of the text
Peek(s, i) == IF i >= 1 /\ i <= Len(s) THEN CharAt(s, i) ELSE ""

\* json.decoder.WHITESPACE: [ \t\n\r]*
JsonWs == {" ", "\t", "\n", "\r"}

\* the first position at or after i that holds no whitespace (Len(s) + 1 at
\* the end of the text)
SkipWs(s, i) ==
    CHOOSE j \in i..(Len(s) + 1) :
        /\ Peek(s, j) \notin JsonWs
        /\ \A k \in i..(j - 1) : CharAt(s, k) \in JsonWs

HexDigits == "0123456789abcdef"

UpperHexDigits == "0123456789ABCDEF"

IsHex(c) == \E i \in 1..16 : c \in {CharAt(HexDigits, i), CharAt(UpperHexDigits, i)}

HexVal(c) ==
    (CHOOSE i \in 1..16 : c \in {CharAt(HexDigits, i), CharAt(UpperHexDigits, i)}) - 1

\* the four hexadecimal digits of a \uXXXX escape stand at i..i+3
IsUnicodeEscape(s, i) ==
    /\ i + 3 <= Len(s)
    /\ \A k \in i..(i + 3) : IsHex(CharAt(s, k))

UnicodeVal(s, i) ==
    HexVal(CharAt(s, i)) * 4096 + HexVal(CharAt(s, i + 1)) * 256
        + HexVal(CharAt(s, i + 2)) * 16 + HexVal(CharAt(s, i + 3))

\* json.decoder.BACKSLASH: the one-character escapes and their code points
SimpleEscapes == {"\"", "\\", "/", "b", "f", "n", "r", "t"}

EscapeVal(c) ==
    CASE c = "\"" -> 34
      [] c = "\\" -> 92
      [] c = "/" -> 47
      [] c = "b" -> 8
      [] c = "f" -> 12
      [] c = "n" -> 10
      [] c = "r" -> 13
      [] c = "t" -> 9

\* a parse that raised json.JSONDecodeError
ParseError == [ok |-> FALSE, val |-> <<>>, next |-> 0]

Parsed(val, next) == [ok |-> TRUE, val |-> val, next |-> next]

\* the Python values: str as its code points, int, bool, None, list, dict
JsonStr(codes) == [type |-> "str", val |-> codes]

JsonInt(n) == [type |-> "int", val |-> n]

JsonLit(name) == [type |-> "lit", val |-> name]

JsonList(items) == [type |-> "list", val |-> items]

JsonDict(members) == [type |-> "dict", val |-> members]

\* dict[key] = value
DictPut(members, key, value) ==
    [x \in (DOMAIN members) \cup {key} |-> IF x = key THEN value ELSE members[x]]

\* py_scanstring from i, the position after the opening quote: the code
\* points up to the closing quote; a control character, an unknown escape or
\* a \u without four hex digits is an error (strict mode)
RECURSIVE ScanString(_, _, _)
ScanString(s, i, codes) ==
    LET c == Peek(s, i)
        e == Peek(s, i + 1)
    IN  CASE c = "" -> ParseError
          [] c = "\"" -> Parsed(codes, i + 1)
          [] c = "\\" /\ e \in SimpleEscapes ->
                ScanString(s, i + 2, Append(codes, EscapeVal(e)))
          [] c = "\\" /\ e = "u" /\ IsUnicodeEscape(s, i + 2) ->
                ScanString(s, i + 6, Append(codes, UnicodeVal(s, i + 2)))
          [] c = "\\" -> ParseError
          [] \E k \in 1..Len(Printable) : CharAt(Printable, k) = c ->
                ScanString(s, i + 1, Append(codes, Ord(c)))
          [] OTHER -> ParseError

\* NUMBER_RE restricted to integers: -?(0|[1-9]\d*); the end of the digits
NumberEnd(s, i) ==
    LET d == IF Peek(s, i) = "-" THEN i + 1 ELSE i
    IN  IF Peek(s, d) = "0" THEN d + 1
        ELSE CHOOSE j \in d..(Len(s) + 1) :
                /\ Peek(s, j) \notin DigitChars
                /\ \A k \in d..(j - 1) : CharAt(s, k) \in DigitChars

RECURSIVE DigitsVal(_)
DigitsVal(t) ==
    IF t = "" THEN 0
    ELSE DigitsVal(SubSeq(t, 1, Len(t) - 1)) * 10
            + (CHOOSE v \in 0..9 : CharAt(HexDigits, v + 1) = CharAt(t, Len(t)))

ScanNumber(s, i) ==
    LET d == IF Peek(s, i) = "-" THEN i + 1 ELSE i
        j == NumberEnd(s, i)
    IN  IF Peek(s, d) \notin DigitChars THEN ParseError
        ELSE Parsed(JsonInt((IF d > i THEN -1 ELSE 1) * DigitsVal(SubSeq(s, d, j - 1))), j)

\* scan_once, JSONArray and JSONObject
RECURSIVE ScanOnce(_, _), ScanItems(_, _, _), ScanMembers(_, _, _)
ScanOnce(s, i) ==
    LET c == Peek(s, i)
        j == SkipWs(s, i + 1)
        str == ScanString(s, i + 1, <<>>)
    IN  CASE c = "\"" ->
                IF str.ok THEN Parsed(JsonStr(str.val), str.next) ELSE ParseError
          [] c = "[" ->
                IF Peek(s, j) = "]" THEN Parsed(JsonList(<<>>), j + 1)
                ELSE ScanItems(s, j, <<>>)
          [] c = "{" ->
                IF Peek(s, j) = "}" THEN Parsed(JsonDict(<<>>), j + 1)
                ELSE ScanMembers(s, j, <<>>)
          [] IsAt("null", s, i) -> Parsed(JsonLit("None"), i + 4)
          [] IsAt("true", s, i) -> Parsed(JsonLit("True"), i + 4)
          [] IsAt("false", s, i) -> Parsed(JsonLit("False"), i + 5)
          [] c = "-" \/ c \in DigitChars -> ScanNumber(s, i)
          [] OTHER -> ParseError

ScanItems(s, i, items) ==
    LET item == ScanOnce(s, i)
        j == SkipWs(s, item.next)
    IN  IF ~item.ok THEN ParseError
        ELSE CASE Peek(s, j) = "]" -> Parsed(JsonList(Append(items, item.val)), j + 1)
               [] Peek(s, j) = "," -> ScanItems(s, SkipWs(s, j + 1), Append(items, item.val))
               [] OTHER -> ParseError

ScanMembers(s, i, members) ==
    LET key == ScanString(s, i + 1, <<>>)
        colon == SkipWs(s, key.next)
        value == ScanOnce(s, SkipWs(s, colon + 1))
        j == SkipWs(s, value.next)
        put == DictPut(members, key.val, value.val)
    IN  IF Peek(s, i) # "\"" \/ ~key.ok \/ Peek(s, colon) # ":" \/ ~value.ok
        THEN ParseError
        ELSE CASE Peek(s, j) = "}" -> Parsed(JsonDict(put), j + 1)
               [] Peek(s, j) = "," -> ScanMembers(s, SkipWs(s, j + 1), put)
               [] OTHER -> ParseError

\* json.loads(s): the value of the whole text; anything after the value but
\* whitespace is 'Extra data'
json_loads(s) ==
    LET value == ScanOnce(s, SkipWs(s, 1))
    IN  IF value.ok /\ SkipWs(s, value.next) = Len(s) + 1 THEN value ELSE ParseError


(***************************************************************************)
(* sanitize_json_escapes and extract_comments_json                         *)
(***************************************************************************)

\* the characters of the lookahead (?!["\\/bfnrtu])
ValidEscapeStart == {"\"", "\\", "/", "b", "f", "n", "r", "t", "u"}

\* what re.sub(r'\\(?!["\\/bfnrtu])', r'\\\\', json_text) leaves of the
\* character at i: a backslash whose next character is not in the lookahead
\* set (or that ends the text) becomes two backslashes
SanitizedChar(json_text, i) ==
    IF CharAt(json_text, i) = "\\" /\ Peek(json_text, i + 1) \notin ValidEscapeStart
    THEN "\\\\"
    ELSE CharAt(json_text, i)

\* the substitution over the characters lo..hi, by halves
RECURSIVE SanitizeRange(_, _, _)
SanitizeRange(json_text, lo, hi) ==
    IF lo > hi THEN ""
    ELSE IF lo = hi THEN SanitizedChar(json_text, lo)
    ELSE SanitizeRange(json_text, lo, (lo + hi) \div 2)
            \o SanitizeRange(json_text, (lo + hi) \div 2 + 1, hi)

sanitize_json_escapes(json_text) == SanitizeRange(json_text, 1, Len(json_text))

Fence == Backquote \o Backquote \o Backquote

FenceOpen == Fence \o "json"

\* where the text of a block opened at i starts: after '```json\s*' (\s and
\* the JSON whitespace are the same characters in the texts here)
BlockBegin(response, i) == SkipWs(response, i + Len(FenceOpen))

\* the closing fences that '(.*?)```' can reach from a block opened at i
BlockEnds(response, i) ==
    {k \in BlockBegin(response, i)..Len(response) : IsAt(Fence, response, k)}

\* re.findall(r'```json\s*(.*?)```', response, re.DOTALL): where its matches
\* can start
BlockStarts(response) ==
    {i \in 1..Len(response) :
        IsAt(FenceOpen, response, i) /\ BlockEnds(response, i) # {}}

\* json_blocks[0]: the group of the first match, up to the nearest fence
FirstBlock(response) ==
    LET i == SetMin(BlockStarts(response))
    IN  SubSeq(response, BlockBegin(response, i), SetMin(BlockEnds(response, i)) - 1)

\* the closing braces that '\{.*?\}\s*\]' can reach from a bracket at i: a
\* brace, then whitespace, then a bracket
ArrayCloses(response, i) ==
    LET j == SkipWs(response, i + 1)
    IN  IF CharAt(response, i) # "[" \/ Peek(response, j) # "{" THEN {}
        ELSE {k \in (j + 1)..Len(response) :
                /\ CharAt(response, k) = "}"
                /\ Peek(response, SkipWs(response, k + 1)) = "]"}

\* re.search(r'\[\s*\{.*?\}\s*\]', response, re.DOTALL): where it can match
ArrayStarts(response) ==
    {i \in 1..Len(response) : ArrayCloses(response, i) # {}}

\* json_match.group(0): the leftmost match, ended at the nearest brace that
\* is followed by a bracket
ArrayMatch(response) ==
    LET i == SetMin(ArrayStarts(response))
        k == SetMin(ArrayCloses(response, i))
    IN  SubSeq(response, i, SkipWs(response, k + 1))

\* the text handed to the parser: strategy 1, 2 or 3
JsonText(response) ==
    IF BlockStarts(response) # {} THEN Strip(FirstBlock(response))
    ELSE IF ArrayStarts(response) # {} THEN ArrayMatch(response)
    ELSE Strip(response)

\* what a call of extract_comments_json comes to
Returned(comments) == [kind |-> "returned", value |-> comments, error |-> ""]

Raised(error) == [kind |-> "raised", value |-> <<>>, error |-> error]

NoResult == [kind |-> "none", value |-> <<>>, error |-> ""]

\* extract_comments_json(response): the parsed list; [] when json.loads
\* raises JSONDecodeError; the ValueError for a value that is no list is
\* raised inside the try and no except clause names it
extract_comments_json(response) ==
    LET comments == json_loads(sanitize_json_escapes(JsonText(response)))
    IN  IF ~comments.ok THEN Returned(<<>>)
        ELSE IF comments.val.type # "list" THEN Raised("ValueError")
        ELSE Returned(comments.val.val)


(***************************************************************************)
(* The responses of a provider, and the two functions applied to them      *)
(***************************************************************************)

\* the forms in which the tests hand over an array: alone, under the key
\* 'comments', and in a fenced block with prose around it
Shapes == {"whole", "wrapped", "fenced"}

Response(shape, text) ==
    CASE shape = "whole" -> text
      [] shape = "wrapped" -> "{\"comments\": " \o text \o "}"
      [] shape = "fenced" ->
            "Here is the documentation:\n\n" \o FenceOpen \o "\n" \o text
                \o "\n" \o Fence \o "\n\nThis should work correctly."

\* one entry, from the JSON spelling of its anchor and of its comment
EntryText(anchor, comment) ==
    "{\"line_number\": 1, \"anchor\": \"" \o anchor
        \o "\", \"indent\": 0, \"comment\": \"" \o comment \o "\"}"

\* 'nothing to document'
EmptyArrays == {"[]", "[ ]"}

JsonAnchors == {"def a", "A = [{"}

\* comments as they are spelled in valid JSON: plain, with a brace and a
\* bracket, with a fence, with an escaped backslash before a letter, with
\* escaped quotes, with a four-digit unicode escape, with a newline escape
JsonComments ==
    {"# x", "# x }] y", "# " \o Fence \o "ruby", "# \\\\d+", "# \\\"q\\\"",
     "# \\u0041", "# a\\n# b"}

\* well-formed arrays of entries
EntryArrays ==
    {"[" \o EntryText(a, c) \o "]" : a \in JsonAnchors, c \in JsonComments}
        \cup {"[\n" \o EntryText("def a", "# x") \o ",\n"
                \o EntryText("def b", "# y") \o "\n]"}

\* arrays whose only defect is a backslash before d, s, w or x
InvalidEscapeArrays ==
    {"[" \o EntryText("def a", "# " \o e \o "+") \o "]" :
        e \in {"\\d", "\\s", "\\w", "\\x"}}

\* arrays whose only defect is a \u with fewer than four hex digits
IncompleteUnicodeArrays ==
    {"[" \o EntryText("def a", "# " \o e) \o "]" : e \in {"\\u12", "\\u"}}

\* responses that hold no array: nothing, prose, an array cut off
Unparseable ==
    {"", "I cannot document this file.", "[{\"line_number\": 1, \"anchor\": \"de"}

JsonTexts ==
    EmptyArrays \cup EntryArrays \cup InvalidEscapeArrays
        \cup IncompleteUnicodeArrays \cup Unparseable

InitJson ==
    /\ j_text \in JsonTexts
    /\ j_shape \in Shapes
    /\ j_response = Response(j_shape, j_text)
    /\ j_sanitized = ""
    /\ j_result = NoResult
    /\ j_pc = "input"
    /\ SpliceIdle
    /\ ResolveIdle
    /\ RunIdle
    /\ ProviderIdle
    /\ HashIdle
    /\ MatchIdle
    /\ FileIdle
    /\ ConfigIdle
    /\ OutputIdle

\* sanitize_json_escapes(json_text) on the text
Sanitize ==
    /\ j_pc = "input"
    /\ j_sanitized' = sanitize_json_escapes(j_text)
    /\ j_pc' = "sanitized"
    /\ UNCHANGED <<j_text, j_shape, j_response, j_result, spliceVars, resolveVars,
                   runVars, notJsonVars>>

\* extract_comments_json(response) on the response
Extract ==
    /\ j_pc = "input"
    /\ j_result' = extract_comments_json(j_response)
    /\ j_pc' = "extracted"
    /\ UNCHANGED <<j_text, j_shape, j_response, j_sanitized, spliceVars, resolveVars,
                   runVars, notJsonVars>>

NextJson == Sanitize \/ Extract

SpecJson == InitJson /\ [][NextJson]_vars


(***************************************************************************)
(* Properties of the extractor and the sanitizer                           *)
(***************************************************************************)

\* the successful result with zero entries
EmptySuccess == Returned(<<>>)

\* an empty array, alone or under 'comments', is returned as zero entries
EmptyArrayAccepted ==
    j_pc = "extracted" /\ j_text \in EmptyArrays => j_result = EmptySuccess

\* a response that holds no array does not come back as the empty success
FailureSignalled ==
    j_pc = "extracted" /\ j_text \in Unparseable => j_result # EmptySuccess

\* C17: extract_comments_json returns an empty array, bare or wrapped as
\* {"comments": []}, as a success with zero entries and never raises for it,
\* and for a response with no parseable array it returns a failure signal
\* that differs from that empty success.
C17_EmptyIsSuccess == EmptyArrayAccepted /\ FailureSignalled

\* the text is a well-formed JSON array
WellFormedArray(text) == json_loads(text).ok /\ json_loads(text).val.type = "list"

\* C18: for every well-formed array of entries, whatever its string values
\* hold, extract_comments_json returns the entries of the array, with equal
\* fields and in order, when the array is the whole response, when it is
\* wrapped as {"comments": [...]}, and when it stands in a json fenced block
\* with prose around it.
C18_ExtractionRoundTrip ==
    j_pc = "extracted" /\ WellFormedArray(j_text)
        => j_result = Returned(json_loads(j_text).val.val)

\* C19: for every JSON text that parses, the text sanitize_json_escapes
\* returns parses too, and to the same value.
C19_SanitizePreservesValid ==
    j_pc = "sanitized" /\ json_loads(j_text).ok
        => /\ json_loads(j_sanitized).ok
           /\ json_loads(j_sanitized).val = json_loads(j_text).val

\* the backslashes that stand directly before position i
BackslashesBefore(text, i) ==
    LET others == {k \in 1..(i - 1) : CharAt(text, k) # "\\"}
    IN  IF others = {} THEN i - 1 ELSE i - 1 - SetMax(others)

\* a backslash at i starts an escape (it is not the escaped half of a pair
\* before it), and what follows it is a JSON escape
StartsEscape(text, i) ==
    CharAt(text, i) = "\\" /\ BackslashesBefore(text, i) % 2 = 0

ValidEscapeAt(text, i) ==
    \/ Peek(text, i + 1) \in SimpleEscapes
    \/ Peek(text, i + 1) = "u" /\ IsUnicodeEscape(text, i + 2)

EveryEscapeValid(text) ==
    \A i \in 1..Len(text) : StartsEscape(text, i) => ValidEscapeAt(text, i)

\* C20: in the text sanitize_json_escapes returns every backslash starts a
\* valid JSON escape, so a text whose only defect is a backslash before d, s,
\* w or x, or a unicode escape with fewer than four hex digits, parses
\* afterwards.
C20_SanitizeRepairs ==
    j_pc = "sanitized"
        => /\ EveryEscapeValid(j_sanitized)
           /\ j_text \in InvalidEscapeArrays \cup IncompleteUnicodeArrays
                => json_loads(j_sanitized).ok


(***************************************************************************)
(* The fingerprint of a file before and after an edit                      *)
(***************************************************************************)

\* longest file that is fingerprinted, in lines
MaxHashLines == 2

\* lines that are not documentation: code with and without indentation, the
\* shebang, an encoding comment, a magic comment, a linter directive
NonDocLines ==
    {"def a", "  def a", "#!/usr/bin/env ruby", "# encoding: utf-8",
     "# frozen_string_literal: true", "# rubocop:disable Style/All"}

\* documentation comments: a description line and a tagged line
DocLines == {"# Adds a number.", "# @return [Integer]"}

HashContents ==
    {JoinWith(ls, "\n") :
        ls \in UNION {[1..n -> NonDocLines \cup DocLines] : n \in 1..MaxHashLines}}

\* content.split('\n')
HashLines(content) == SplitOn(content, "\n")

InitHash ==
    /\ h_content \in HashContents
    /\ h_edited = h_content
    /\ h_hashes = <<>>
    /\ h_pc = "input"
    /\ SpliceIdle
    /\ ResolveIdle
    /\ RunIdle
    /\ ProviderIdle
    /\ JsonIdle
    /\ MatchIdle
    /\ FileIdle
    /\ ConfigIdle
    /\ OutputIdle

\* the file is edited: a line that is not documentation is added
AddLine ==
    /\ h_pc = "input"
    /\ \E k \in 0..Len(HashLines(h_content)), line \in NonDocLines :
            h_edited' = JoinWith(SubSeq(HashLines(h_content), 1, k) \o <<line>>
                            \o SubSeq(HashLines(h_content), k + 1, Len(HashLines(h_content))),
                                 "\n")
    /\ h_pc' = "edited"
    /\ UNCHANGED <<h_content, h_hashes, spliceVars, resolveVars, runVars, notHashVars>>

\* the file is edited: a line that is not documentation is removed
RemoveLine ==
    /\ h_pc = "input"
    /\ Len(HashLines(h_content)) > 1
    /\ \E k \in 1..Len(HashLines(h_content)) :
            /\ HashLines(h_content)[k] \in NonDocLines
            /\ h_edited' = JoinWith(SubSeq(HashLines(h_content), 1, k - 1)
                            \o SubSeq(HashLines(h_content), k + 1, Len(HashLines(h_content))),
                                    "\n")
    /\ h_pc' = "edited"
    /\ UNCHANGED <<h_content, h_hashes, spliceVars, resolveVars, runVars, notHashVars>>

\* the file is edited: a line that is not documentation is replaced by
\* another one
EditLine ==
    /\ h_pc = "input"
    /\ \E k \in 1..Len(HashLines(h_content)), line \in NonDocLines :
            /\ HashLines(h_content)[k] \in NonDocLines
            /\ HashLines(h_content)[k] # line
            /\ h_edited' = JoinWith([HashLines(h_content) EXCEPT ![k] = line], "\n")
    /\ h_pc' = "edited"
    /\ UNCHANGED <<h_content, h_hashes, spliceVars, resolveVars, runVars, notHashVars>>

\* compute_code_hash of the file as it was and as it is
Fingerprint ==
    /\ h_pc = "edited"
    /\ h_hashes' = <<compute_code_hash(h_content), compute_code_hash(h_edited)>>
    /\ h_pc' = "hashed"
    /\ UNCHANGED <<h_content, h_edited, spliceVars, resolveVars, runVars, notHashVars>>

NextHash == AddLine \/ RemoveLine \/ EditLine \/ Fingerprint

SpecHash == InitHash /\ [][NextHash]_vars

(***************************************************************************)
(* The matcher on one anchor and one line                                  *)
(***************************************************************************)

\* anchors for a class or a module: plain, with an inheritance clause, with
\* a parameter clause, of another keyword, of other names
ClassAnchors ==
    {"class Foo", "class Foo < Bar", "class Foo(x)", "module Foo", "class Bar",
     "class foo"}

\* anchors for a method: unqualified, self-qualified, Type-qualified, with
\* parameters, of another name
DefAnchors ==
    {"def add", "def self.add", "def Calc.add", "def add(n)", "def self.add(n)",
     "def other"}

ClassDeclLines ==
    {"class Foo", "class Foo < Bar", "  class Foo < Baz", "module Foo",
     "class Foobar", "class Bar", "class Foo::Bar", "class foo"}

DefLines ==
    {"def add", "  def add(n)", "def self.add", "def Calc.add", "def Calc.add(n)",
     "def add_all", "def self.add_all", "def other"}

InitMatch ==
    /\ m_anchor \in ClassAnchors \cup DefAnchors
    /\ m_line \in ClassDeclLines \cup DefLines
    /\ m_result = FALSE
    /\ m_index = None
    /\ m_pc = "input"
    /\ SpliceIdle
    /\ ResolveIdle
    /\ RunIdle
    /\ ProviderIdle
    /\ JsonIdle
    /\ HashIdle
    /\ FileIdle
    /\ ConfigIdle
    /\ OutputIdle

\* self.soft_match_anchor(anchor, line)
Match ==
    /\ m_pc = "input"
    /\ m_result' = soft_match_anchor(m_anchor, m_line)
    /\ m_pc' = "matched"
    /\ UNCHANGED <<m_anchor, m_line, m_index, spliceVars, resolveVars, runVars,
                   notMatchVars>>

\* self.find_insertion_line(lines, line_number, anchor, inserted_at_lines) on
\* a file that holds the line and an 'end', for an entry that reports either
\* of the two lines, with nothing inserted yet
Locate ==
    /\ m_pc = "input"
    /\ \E line_number \in 1..2 :
            m_index' = find_insertion_line(<<m_line, "end">>, line_number, m_anchor, {})
    /\ m_pc' = "located"
    /\ UNCHANGED <<m_anchor, m_line, m_result, spliceVars, resolveVars, runVars,
                   notMatchVars>>

NextMatch == Match \/ Locate

SpecMatch == InitMatch /\ [][NextMatch]_vars

(***************************************************************************)
(* One file after the other through process_file and its caller            *)
(***************************************************************************)

\* number of files that go through process_file
MaxFileRuns == 2

\* what the provider hands back: an array with entries; an empty array or a
\* text without array; a JSON value that is no list
ResponseKinds == {"entries", "nothing", "not_a_list"}

InitFile ==
    /\ f_pc = "start"
    /\ f_mode \in {"pool", "sequential"}
    /\ f_strict_mode \in BOOLEAN
    /\ f_file = 1
    /\ f_requests = 0
    /\ f_response = "none"
    /\ f_verdicts = <<>>
    /\ f_written = {}
    /\ f_marked = <<>>
    /\ SpliceIdle
    /\ ResolveIdle
    /\ RunIdle
    /\ ProviderIdle
    /\ JsonIdle
    /\ HashIdle
    /\ MatchIdle
    /\ ConfigIdle
    /\ OutputIdle

\* process_file opens and reads the source; an error is caught by its
\* 'except Exception', which returns None
OpenFile ==
    /\ f_pc = "start"
    /\ f_pc' \in {"request", "returned_none"}
    /\ UNCHANGED <<f_mode, f_strict_mode, f_file, f_requests, f_response, f_verdicts,
                   f_written, f_marked, spliceVars, resolveVars, runVars, notFileVars>>

\* result = self.provider.generate(user_prompt, system_prompt): an answer,
\* or an exception that process_file catches
AskProvider ==
    /\ f_pc = "request"
    /\ f_requests' = f_requests + 1
    /\ \/ /\ f_response' \in ResponseKinds
          /\ f_pc' = "extract"
       \/ /\ f_pc' = "returned_none"
          /\ UNCHANGED f_response
    /\ UNCHANGED <<f_mode, f_strict_mode, f_file, f_verdicts, f_written, f_marked,
                   spliceVars, resolveVars, runVars, notFileVars>>

\* comments = self.extract_comments_json(result); 'if not comments' and the
\* ValueError for a value that is no list both end process_file with None
ParseResponse ==
    /\ f_pc = "extract"
    /\ f_pc' = IF f_response = "entries" THEN "splice" ELSE "returned_none"
    /\ UNCHANGED <<f_mode, f_strict_mode, f_file, f_requests, f_response, f_verdicts,
                   f_written, f_marked, spliceVars, resolveVars, runVars, notFileVars>>

\* documented_code = self.insert_comments(original_content, comments) is
\* stored and returned; the verdict is what YARDValidator.validate_content
\* answers for that text
SpliceResult ==
    /\ f_pc = "splice"
    /\ \E valid \in BOOLEAN : f_verdicts' = Append(f_verdicts, valid)
    /\ f_pc' = "returned_code"
    /\ UNCHANGED <<f_mode, f_strict_mode, f_file, f_requests, f_response, f_written,
                   f_marked, spliceVars, resolveVars, runVars, notFileVars>>

\* the caller writes documented/<name>; in the pool an error is caught and
\* the file is marked failed, in the sequential loop it leaves the loop
SaveDocumented ==
    /\ f_pc = "returned_code"
    /\ \/ /\ f_written' = f_written \cup {f_file}
          /\ f_pc' = "save_manifest"
       \/ /\ f_pc' = IF f_mode = "pool" THEN "returned_none" ELSE "raised"
          /\ UNCHANGED f_written
    /\ UNCHANGED <<f_mode, f_strict_mode, f_file, f_requests, f_response, f_verdicts,
                   f_marked, spliceVars, resolveVars, runVars, notFileVars>>

\* self.mark_file_processed(file_path, success=True)
RecordSuccess ==
    /\ f_pc = "save_manifest"
    /\ f_marked' = Append(f_marked, <<f_file, "processed">>)
    /\ f_pc' = "done"
    /\ UNCHANGED <<f_mode, f_strict_mode, f_file, f_requests, f_response, f_verdicts,
                   f_written, spliceVars, resolveVars, runVars, notFileVars>>

\* self.mark_file_processed(file_path, success=False)
RecordFailure ==
    /\ f_pc = "returned_none"
    /\ f_marked' = Append(f_marked, <<f_file, "failed">>)
    /\ f_pc' = "done"
    /\ UNCHANGED <<f_mode, f_strict_mode, f_file, f_requests, f_response, f_verdicts,
                   f_written, spliceVars, resolveVars, runVars, notFileVars>>

\* the pool or the loop goes on to the next file
ContinueRun ==
    /\ f_pc = "done"
    /\ f_file < MaxFileRuns
    /\ f_file' = f_file + 1
    /\ f_requests' = 0
    /\ f_response' = "none"
    /\ f_verdicts' = <<>>
    /\ f_pc' = "start"
    /\ UNCHANGED <<f_mode, f_strict_mode, f_written, f_marked, spliceVars, resolveVars,
                   runVars, notFileVars>>

NextProcessFile ==
    \/ OpenFile
    \/ AskProvider
    \/ ParseResponse
    \/ SpliceResult
    \/ SaveDocumented
    \/ RecordSuccess
    \/ RecordFailure
    \/ ContinueRun

SpecFile == InitFile /\ [][NextProcessFile]_vars

(***************************************************************************)
(* ConfigManager: load, get and reload                                     *)
(***************************************************************************)

\* number of calls made on ConfigManager
MaxConfigCalls == 3

\* DEFAULT_PATHS, in search order
DEFAULT_PATHS == <<"config.yaml", "config.yml", "../config.yaml">>

\* the paths a caller passes: a file of its own, and one that never exists
GivenPaths == {"custom.yaml", "missing.yaml"}

\* the files that may be on disk
ConfigFiles == {DEFAULT_PATHS[i] : i \in 1..Len(DEFAULT_PATHS)} \cup {"custom.yaml"}

\* cls._create_default_config()
DefaultConfig == "defaults"

\* cls._parse_config(data) for the data of the file at path
ParsedConfig(path) == <<"parsed", path>>

\* the default locations that exist, by their place in DEFAULT_PATHS
ExistingDefaults == {i \in 1..Len(DEFAULT_PATHS) : DEFAULT_PATHS[i] \in c_exists}

\* cls._config_path after the first lines of load(path)
ChosenPath(path) ==
    IF path # "None" THEN path
    ELSE IF ExistingDefaults # {} THEN DEFAULT_PATHS[SetMin(ExistingDefaults)]
    ELSE c_config_path

\* the Config that load(path) makes
LoadedConfig(path) ==
    IF ChosenPath(path) = "None" \/ ChosenPath(path) \notin c_exists
    THEN DefaultConfig
    ELSE ParsedConfig(ChosenPath(path))

InitConfig ==
    /\ c_instance = "None"
    /\ c_config_path = "None"
    /\ c_exists \in SUBSET ConfigFiles
    /\ c_calls = 0
    /\ c_last = <<>>
    /\ SpliceIdle
    /\ ResolveIdle
    /\ RunIdle
    /\ ProviderIdle
    /\ JsonIdle
    /\ HashIdle
    /\ MatchIdle
    /\ FileIdle
    /\ OutputIdle

\* ConfigManager.load(path)
Load ==
    /\ c_calls < MaxConfigCalls
    /\ \E path \in GivenPaths \cup {"None"} :
          /\ c_config_path' = ChosenPath(path)
          /\ c_instance' = LoadedConfig(path)
          /\ c_last' = <<"load", path, LoadedConfig(path)>>
    /\ c_calls' = c_calls + 1
    /\ UNCHANGED <<c_exists, spliceVars, resolveVars, runVars, notConfigVars>>

\* ConfigManager.get(): loads when nothing is loaded yet
Get ==
    /\ c_calls < MaxConfigCalls
    /\ IF c_instance = "None"
       THEN /\ c_config_path' = ChosenPath("None")
            /\ c_instance' = LoadedConfig("None")
            /\ c_last' = <<"get", "None", LoadedConfig("None")>>
       ELSE /\ c_last' = <<"get", "None", c_instance>>
            /\ UNCHANGED <<c_instance, c_config_path>>
    /\ c_calls' = c_calls + 1
    /\ UNCHANGED <<c_exists, spliceVars, resolveVars, runVars, notConfigVars>>

\* ConfigManager.reload(path): _instance is cleared, then load(path)
Reload ==
    /\ c_calls < MaxConfigCalls
    /\ \E path \in GivenPaths \cup {"None"} :
          /\ c_config_path' = ChosenPath(path)
          /\ c_instance' = LoadedConfig(path)
          /\ c_last' = <<"reload", path, LoadedConfig(path)>>
    /\ c_calls' = c_calls + 1
    /\ UNCHANGED <<c_exists, spliceVars, resolveVars, runVars, notConfigVars>>

NextConfig == Load \/ Get \/ Reload

SpecConfig == InitConfig /\ [][NextConfig]_vars

(***************************************************************************)
(* The documented directory of a source tree with sub-directories          *)
(***************************************************************************)

\* number of times the generator is started on the tree
MaxTreeRuns == 2

\* directory.rglob('*.rb') on a tree with two sub-directories
TreeFiles == <<"lib/a.rb", "lib/b.rb", "ext/a.rb">>

TreePaths == {TreeFiles[i] : i \in 1..Len(TreeFiles)}

\* the text process_file returns for a source text
DocumentedText(content) == insert_comments(content, ProviderComments(content))

\* is_file_processed on the tree
TreeFileProcessed(incremental_run, file_path) ==
    IF ~ incremental_run THEN FALSE
    ELSE IF file_path \in DOMAIN o_processed_files
    THEN IF FileName(file_path) \notin DOMAIN o_documented THEN FALSE
         ELSE compute_code_hash(o_source[file_path])
                  = o_processed_files[file_path].content_hash
    ELSE FALSE

InitOutput ==
    /\ o_source \in [TreePaths -> SourceTexts]
    /\ o_documented = <<>>
    /\ o_processed_files = <<>>
    /\ o_queue = <<>>
    /\ o_file = ""
    /\ o_result = ""
    /\ o_pc = "stopped"
    /\ o_run = 0
    /\ SpliceIdle
    /\ ResolveIdle
    /\ RunIdle
    /\ ProviderIdle
    /\ JsonIdle
    /\ HashIdle
    /\ MatchIdle
    /\ FileIdle
    /\ ConfigIdle

\* process_directory: the tree is listed and the files already processed
\* are filtered out
ListTree ==
    /\ o_pc = "stopped"
    /\ o_run < MaxTreeRuns
    /\ \E incremental_run \in BOOLEAN :
          o_queue' = SelectSeq(TreeFiles,
                               LAMBDA f : ~ TreeFileProcessed(incremental_run, f))
    /\ o_run' = o_run + 1
    /\ o_pc' = "loop"
    /\ UNCHANGED <<o_source, o_documented, o_processed_files, o_file, o_result,
                   spliceVars, resolveVars, runVars, notOutputVars>>

\* the sequential loop: process_file on the next file; a file whose
\* processing fails is passed over
ProcessTreeFile ==
    /\ o_pc = "loop"
    /\ o_queue # <<>>
    /\ o_file' = Head(o_queue)
    /\ o_queue' = Tail(o_queue)
    /\ \E generated \in BOOLEAN :
          IF generated
          THEN /\ o_result' = DocumentedText(o_source[Head(o_queue)])
               /\ o_pc' = "write"
          ELSE /\ o_result' = ""
               /\ o_pc' = "loop"
    /\ UNCHANGED <<o_source, o_documented, o_processed_files, o_run,
                   spliceVars, resolveVars, runVars, notOutputVars>>

\* the result is written to output_dir / 'documented' / file_path.name
WriteDocumented ==
    /\ o_pc = "write"
    /\ o_documented' = Put(o_documented, FileName(o_file), o_result)
    /\ o_pc' = "mark"
    /\ UNCHANGED <<o_source, o_processed_files, o_queue, o_file, o_result, o_run,
                   spliceVars, resolveVars, runVars, notOutputVars>>

\* mark_file_processed(file_path, success=True)
MarkDocumented ==
    /\ o_pc = "mark"
    /\ o_processed_files' =
           Put(o_processed_files, o_file,
               [content_hash |-> compute_code_hash(o_source[o_file]),
                file_name    |-> FileName(o_file)])
    /\ o_pc' = "loop"
    /\ UNCHANGED <<o_source, o_documented, o_queue, o_file, o_result, o_run,
                   spliceVars, resolveVars, runVars, notOutputVars>>

\* the loop ends
EndTree ==
    /\ o_pc = "loop"
    /\ o_queue = <<>>
    /\ o_pc' = "stopped"
    /\ UNCHANGED <<o_source, o_documented, o_processed_files, o_queue, o_file,
                   o_result, o_run, spliceVars, resolveVars, runVars, notOutputVars>>

NextOutput ==
    ListTree \/ ProcessTreeFile \/ WriteDocumented \/ MarkDocumented \/ EndTree

SpecOutput == InitOutput /\ [][NextOutput]_vars

(***************************************************************************)
(* Properties of the fingerprint                                           *)
(***************************************************************************)

\* C21: adding documentation never changes the fingerprint: the text that
\* insert_comments returns for a source and a batch of entries has the
\* compute_code_hash of the source, whatever lines the inserted blocks hold.
C21_DocumentationKeepsHash ==
    pc = "spliced" => compute_code_hash(out_code) = compute_code_hash(src_content)

\* C22: every line that is not a documentation comment is part of what
\* compute_code_hash digests: code lines with their whitespace, the shebang,
\* encoding and magic comments, linter directives; adding, removing or
\* editing such a line gives a different fingerprint.
C22_NonDocLinesHashed ==
    h_pc = "hashed" => h_hashes[1] # h_hashes[2]


(***************************************************************************)
(* Properties of the matcher                                               *)
(***************************************************************************)

\* the keyword a declaration starts with
DeclKeyword(text) == SplitWs(Strip(text))[1]

IsClassDecl(text) == DeclKeyword(text) \in {"class", "module"}

IsDefDecl(text) == DeclKeyword(text) = "def"

\* the name a class or module declaration declares: what follows the
\* keyword, without a parameter clause and without an inheritance clause
DeclaredName(text) == SplitWs(SplitOn(Strip(text), "(")[1])[2]

\* the bare name of the method a definition defines: without the argument
\* list and without the receiver
BareMethodName(text) ==
    LET sig == Strip(SplitOn(RestAfterFirstToken(Strip(text)), "(")[1])
        parts == SplitOn(sig, ".")
    IN  parts[Len(parts)]

SameDeclaration(anchor, line) ==
    /\ IsClassDecl(line)
    /\ DeclKeyword(line) = DeclKeyword(anchor)
    /\ DeclaredName(line) = DeclaredName(anchor)

\* C23: for a 'class X' or 'module X' anchor soft_match_anchor accepts a
\* line if and only if the line declares the same keyword and the same name,
\* an inheritance or parameter clause on either side being ignored.
C23_ClassAnchorMatchesName ==
    m_pc = "matched" /\ IsClassDecl(m_anchor)
        => (m_result <=> SameDeclaration(m_anchor, m_line))

\* C24: for a 'def ...' anchor soft_match_anchor accepts every line that
\* defines the same bare method name, whether either side is unqualified,
\* self-qualified or Type-qualified, with or without parameters.
C24_DefAnchorMatchesBareName ==
    m_pc = "matched" /\ IsDefDecl(m_anchor) /\ IsDefDecl(m_line)
            /\ BareMethodName(m_anchor) = BareMethodName(m_line)
        => m_result

\* the anchor and the line are definitions of methods with different names
OtherMethod ==
    /\ IsDefDecl(m_anchor)
    /\ IsDefDecl(m_line)
    /\ BareMethodName(m_anchor) # BareMethodName(m_line)

\* C30: a 'def name' anchor never matches a line that defines a method with
\* another bare name, one that has name as a prefix included, so
\* find_insertion_line does not resolve the entry to that line.
C30_OtherMethodRejected ==
    /\ m_pc = "matched" /\ OtherMethod => ~m_result
    /\ m_pc = "located" /\ OtherMethod => m_index = None


(***************************************************************************)
(* Properties of the per-file pipeline                                     *)
(***************************************************************************)

\* the output of the file in hand is on disk
OutputPersisted == f_file \in f_written

\* the last text that was spliced for the file in hand fails validation
LastOutputInvalid == f_verdicts # <<>> /\ ~f_verdicts[Len(f_verdicts)]

\* the first text that was spliced for the file in hand fails validation
FirstOutputInvalid == f_verdicts # <<>> /\ ~f_verdicts[1]

FileMarkedFailed ==
    f_marked # <<>> /\ f_marked[Len(f_marked)] = <<f_file, "failed">>

\* C25: the spliced output is validated before it is persisted: a validation
\* failure leads to exactly one more generation request for the file, and an
\* output that fails validation is persisted only as the result of that
\* retry and in non-strict mode; in strict mode the file is marked failed.
C25_ValidatedBeforePersist ==
    /\ f_requests <= 2
    /\ OutputPersisted /\ LastOutputInvalid => f_requests = 2 /\ ~f_strict_mode
    /\ f_pc = "done" /\ FirstOutputInvalid => f_requests = 2
    /\ f_pc = "done" /\ LastOutputInvalid /\ f_strict_mode => FileMarkedFailed


(***************************************************************************)
(* Properties of ConfigManager                                             *)
(***************************************************************************)

\* the last call was load(path)
LoadCalled(path) == c_last # <<>> /\ c_last[1] = "load" /\ c_last[2] = path

\* C26: load without a path searches only the default locations, and when
\* no config file exists there, or when the given path does not exist, it
\* returns the default configuration, whatever calls were made before.
C26_LoadFallsBackToDefaults ==
    /\ LoadCalled("None") /\ ExistingDefaults = {} => c_last[3] = DefaultConfig
    /\ LoadCalled("None") /\ ExistingDefaults # {}
            => c_last[3] = ParsedConfig(DEFAULT_PATHS[SetMin(ExistingDefaults)])
    /\ \A path \in GivenPaths :
            LoadCalled(path) /\ path \notin c_exists => c_last[3] = DefaultConfig

(***************************************************************************)
(* Properties of the documented directory                                  *)
(***************************************************************************)

\* C27: after a directory run every path recorded in processed_files has
\* an output file holding the documentation generated from that path's own
\* source; two distinct source paths never share one output file.
C27_OwnOutputPerPath ==
    o_pc = "stopped" /\ o_run > 0 =>
        \A p \in DOMAIN o_processed_files :
            /\ FileName(p) \in DOMAIN o_documented
            /\ o_documented[FileName(p)] = DocumentedText(o_source[p])

(***************************************************************************)
(* Properties of the manifest across runs                                  *)
(***************************************************************************)

\* C28: a path whose latest processing succeeded is not listed in the
\* manifest's failed_files.
C28_FailedFilesCurrent ==
    \A p \in DOMAIN results :
        results[p] = "ok" => p \notin Elems(manifest.failed_files)

\* C29: the content_hash stored for a persisted file is the fingerprint of
\* the source content that was read and sent to the provider, also when the
\* file is edited between that read and the manifest update.
C29_HashOfContentRead ==
    \A w \in Workers :
        worker[w].pc \in {"save", "dump", "release"} /\ worker[w].success =>
            manifest.processed_files[worker[w].file].content_hash
                = compute_code_hash(worker[w].content)

====
